---- MODULE Spec2Model ----
(***************************************************************************)
(* A model of ac-core: the SignalRaw record (models.py), the tabular       *)
(* conversion and validation routines (models.py), the storage gateway     *)
(* DatabaseManager (database_manager.py) over a PostgreSQL table, and the  *)
(* insertion orchestrator SignalInserter (signal_inserter.py).             *)
(*                                                                         *)
(* Python values are tagged records [type, v]; v has one TLA+ type per     *)
(* tag.  The table signal_raw is a set of rows, each row the parameter     *)
(* tuple of the INSERT statement that wrote it.                            *)
(***************************************************************************)
EXTENDS Integers, Sequences, FiniteSets, TLC

VARIABLES
    connection,         \* DatabaseManager._connection: "None", "open" or "closed"
    autocommit,         \* the autocommit flag of the connection object
    table_exists,       \* whether signal_raw exists in the database
    indexes,            \* the secondary indexes on signal_raw
    signal_raw,         \* the rows of signal_raw
    auto_create_table,  \* SignalInserter.auto_create_table
    clock,              \* what datetime.now() returns
    last,               \* the call the caller made last, with what it returned
    schema_ensured      \* history: a create_signal_raw_table has returned True

vars == <<connection, autocommit, table_exists, indexes, signal_raw,
          auto_create_table, clock, last, schema_ensured>>

(***************************************************************************)
(* Bounds of the model.                                                    *)
(***************************************************************************)
MaxClock == 2
MaxBatch == 2
MaxRows == 2

(***************************************************************************)
(* Python values.                                                          *)
(***************************************************************************)
PyNone == [type |-> "NoneType", v |-> "None"]
PyStr(s) == [type |-> "str", v |-> s]
PyNum(n) == [type |-> "float", v |-> n]
PyDate(d) == [type |-> "date", v |-> d]
PyDatetime(t) == [type |-> "datetime", v |-> t]
PyDict(items) == [type |-> "dict", v |-> items]
PyList(items) == [type |-> "list", v |-> items]
PyDataFrame(df) == [type |-> "DataFrame", v |-> df]

\* bool(x)
Truthy(x) ==
    CASE x.type = "NoneType" -> FALSE
      [] x.type = "str" -> x.v # ""
      [] x.type = "dict" -> x.v # {}
      [] x.type = "list" -> x.v # <<>>
      [] x.type = "float" -> x.v # 0
      [] OTHER -> TRUE

\* isinstance(x, str), isinstance(x, (int, float)), isinstance(x, date);
\* datetime is a subclass of date
IsStr(x) == x.type = "str"
IsNumber(x) == x.type = "float"
IsDate(x) == x.type \in {"date", "datetime"}

\* pd.isna(x) for a scalar cell
IsNa(x) == x.type = "NoneType"

(***************************************************************************)
(* json.dumps and json.loads on the metadata maps of the model.  A map is  *)
(* a set of <<key, value>> pairs; a date inside a map has no JSON form.    *)
(***************************************************************************)
YoutubeMap == {<<"source", PyStr("youtube")>>}
DatedMap == {<<"asof", PyDate(1)>>}

JsonEncodeTable ==
    { <<{}, "{}">>,
      <<YoutubeMap, "{\"source\": \"youtube\"}">> }

JsonDecodeTable ==
    JsonEncodeTable \cup { <<YoutubeMap, "{\"source\":\"youtube\"}">> }

JsonSerializable(d) == \E p \in JsonEncodeTable : p[1] = d.v

\* json.dumps(d), for a serializable d (TypeError otherwise)
JsonDumps(d) == PyStr((CHOOSE p \in JsonEncodeTable : p[1] = d.v)[2])

JsonWellFormed(s) == \E p \in JsonDecodeTable : p[2] = s.v

\* json.loads(s), for a well-formed s (JSONDecodeError otherwise)
JsonLoads(s) == PyDict((CHOOSE p \in JsonDecodeTable : p[2] = s.v)[1])

(***************************************************************************)
(* SignalRaw (models.py).                                                  *)
(***************************************************************************)
\* The constructor without the check of signal_name
SignalRawWithoutNameCheck(asof_date, ticker, signal_name, value, metadata, created_at, now) ==
    LET obj == [asof_date |-> asof_date, ticker |-> ticker,
                signal_name |-> signal_name, value |-> value,
                metadata |-> metadata,
                created_at |-> IF created_at.type = "NoneType"
                               THEN PyDatetime(now) ELSE created_at]
    IN  IF ~Truthy(ticker) \/ ~IsStr(ticker)
        THEN [exc |-> "ValueError", msg |-> "ticker must be a non-empty string"]
        ELSE IF ~IsNumber(value)
        THEN [exc |-> "ValueError", msg |-> "value must be a number"]
        ELSE IF ~IsDate(asof_date)
        THEN [exc |-> "ValueError", msg |-> "asof_date must be a date object"]
        ELSE [exc |-> "none", obj |-> obj]

\* SignalRaw(...): the dataclass constructor followed by __post_init__
SignalRaw(asof_date, ticker, signal_name, value, metadata, created_at, now) ==
    LET obj == [asof_date |-> asof_date, ticker |-> ticker,
                signal_name |-> signal_name, value |-> value,
                metadata |-> metadata,
                created_at |-> IF created_at.type = "NoneType"
                               THEN PyDatetime(now) ELSE created_at]
    IN  IF ~Truthy(ticker) \/ ~IsStr(ticker)
        THEN [exc |-> "ValueError", msg |-> "ticker must be a non-empty string"]
        ELSE IF ~Truthy(signal_name) \/ ~IsStr(signal_name)
        THEN [exc |-> "ValueError", msg |-> "signal_name must be a non-empty string"]
        ELSE IF ~IsNumber(value)
        THEN [exc |-> "ValueError", msg |-> "value must be a number"]
        ELSE IF ~IsDate(asof_date)
        THEN [exc |-> "ValueError", msg |-> "asof_date must be a date object"]
        ELSE [exc |-> "none", obj |-> obj]

(***************************************************************************)
(* The database server and the driver, as the gateway uses them.           *)
(***************************************************************************)
\* VARCHAR(20), VARCHAR(100)
TickerMaxLen == 20
SignalNameMaxLen == 100

IndexNames == {"idx_signal_raw_asof_date", "idx_signal_raw_ticker",
               "idx_signal_raw_signal_name", "idx_signal_raw_date_ticker"}

\* UNIQUE(asof_date, ticker, signal_name)
Key(r) == <<r.asof_date, r.ticker, r.signal_name>>

\* The gateway's view of the world: its connection and the database behind
\* it, with the calls of psycopg2.connect (connects) and the statements sent
\* to the server (statements) counted from the start of the caller's call
Gateway == [connection |-> connection, autocommit |-> autocommit,
            table_exists |-> table_exists, indexes |-> indexes,
            signal_raw |-> signal_raw, connects |-> 0, statements |-> 0]

\* cursor.execute was called n more times
Sent(g, n) == [g EXCEPT !.statements = @ + n]

\* What the environment does to one call is a record env: the outcome of
\* psycopg2.connect (env.connect), of the statements that create the table
\* and its indexes (env.ddl) and of the setval statement (env.setval), each
\* "ok" or "PgError"; env.ddl = "PgErrorIndex" is a PgError of the second
\* CREATE INDEX, the statements before it being committed; env.connect =
\* "UnicodeDecodeError" is psycopg2.connect raising an exception that is not
\* a psycopg2.Error

\* Whether the server rejects the statement for these parameters
StatementRejected(g, p) ==
    \/ ~g.table_exists
    \/ Len(p.ticker.v) > TickerMaxLen
    \/ Len(p.signal_name.v) > SignalNameMaxLen

\* A plain INSERT on a table without the unique constraint
UpsertRowWithoutConflict(rows, p) == rows \cup {p}

\* A conflict target of (asof_date, ticker) alone: the update reaches the rows
\* of every signal_name of that date and ticker
UpsertRowOnDateAndTicker(rows, p) ==
    IF \E r \in rows : r.asof_date = p.asof_date /\ r.ticker = p.ticker
    THEN { IF r.asof_date = p.asof_date /\ r.ticker = p.ticker
           THEN [r EXCEPT !.value = p.value, !.metadata = p.metadata,
                          !.created_at = p.created_at]
           ELSE r : r \in rows }
    ELSE rows \cup {p}

\* INSERT INTO signal_raw ... ON CONFLICT (asof_date, ticker, signal_name)
\* DO UPDATE SET value, metadata, created_at: one statement, one row
UpsertRow(rows, p) ==
    IF \E r \in rows : Key(r) = Key(p)
    THEN { IF Key(r) = Key(p)
           THEN [r EXCEPT !.value = p.value, !.metadata = p.metadata,
                          !.created_at = p.created_at]
           ELSE r : r \in rows }
    ELSE rows \cup {p}

\* cursor.executemany(query, params_list) on an autocommit connection: the
\* statement is executed once per parameter tuple, each execution its own
\* transaction; the first rejected one raises and ends the loop; rowcount
\* adds up the rows affected
RECURSIVE CursorExecuteMany(_, _, _)
CursorExecuteMany(g, params_list, i) ==
    IF i > Len(params_list)
    THEN [g |-> g, exc |-> "none", rowcount |-> Len(params_list)]
    ELSE IF StatementRejected(g, params_list[i])
    THEN [g |-> Sent(g, 1), exc |-> "PgError", rowcount |-> -1]
    ELSE CursorExecuteMany(
             [Sent(g, 1) EXCEPT !.signal_raw = UpsertRow(g.signal_raw, params_list[i])],
             params_list, i + 1)

(***************************************************************************)
(* DatabaseManager (database_manager.py).  Every method takes the gateway  *)
(* g and returns the gateway after the call, the value returned and the    *)
(* exception raised ("none" when it returns).                              *)
(***************************************************************************)
Returns(g, ret) == [g |-> g, ret |-> ret, exc |-> "none"]
Raises(g, exc) == [g |-> g, ret |-> PyNone, exc |-> exc]

\* except PgError: any other exception of psycopg2.connect propagates
connect(g, env) ==
    IF env.connect = "ok"
    THEN Returns([g EXCEPT !.connection = "open", !.autocommit = TRUE,
                           !.connects = @ + 1], TRUE)
    ELSE IF env.connect = "PgError"
    THEN Returns([g EXCEPT !.connects = @ + 1], FALSE)
    ELSE Raises([g EXCEPT !.connects = @ + 1], env.connect)

disconnect(g) ==
    IF g.connection = "open"
    THEN Returns([g EXCEPT !.connection = "closed"], PyNone)
    ELSE Returns(g, PyNone)

\* Taking a connection object for connected without looking at its closed flag
IsConnectedIgnoringClosed(g) == g.connection # "None"

is_connected(g) == g.connection = "open"

\* Connecting whether or not the connection is open
EnsureConnectionReconnecting(g, env) == connect(g, env)

ensure_connection(g, env) ==
    IF ~is_connected(g) THEN connect(g, env) ELSE Returns(g, TRUE)

execute_many(g, params_list, env) ==
    LET ec == ensure_connection(g, env)
        ex == CursorExecuteMany(ec.g, params_list, 1)
    IN  IF ec.exc # "none" THEN Raises(ec.g, ec.exc)
        ELSE IF ~ec.ret THEN Returns(ec.g, 0)
        ELSE IF params_list = <<>> THEN Returns(ec.g, 0)
        ELSE IF ex.exc = "PgError" THEN Returns(ex.g, 0)
        ELSE Returns(ex.g, ex.rowcount)

\* The strings of the model in the order of the server's collation
Collation == <<"AAPL", "ALPHABET_CLASS_A_SHARES_US", "MOMENTUM_1M", "MSFT",
               "SENTIMENT_YT">>
StrRank(s) == CHOOSE i \in 1..Len(Collation) : Collation[i] = s

\* One condition of a WHERE clause on a row
Satisfies(r, cond) ==
    CASE cond.op = "IN" -> \E i \in 1..Len(cond.v) : r[cond.col] = cond.v[i]
      [] cond.op = ">=" -> r[cond.col].v >= cond.v.v
      [] cond.op = "<=" -> r[cond.col].v <= cond.v.v

\* ORDER BY asof_date DESC, ticker, signal_name: r comes before o
Precedes(r, o) ==
    \/ r.asof_date.v > o.asof_date.v
    \/ /\ r.asof_date.v = o.asof_date.v
       /\ \/ StrRank(r.ticker.v) < StrRank(o.ticker.v)
          \/ /\ r.ticker.v = o.ticker.v
             /\ StrRank(r.signal_name.v) < StrRank(o.signal_name.v)

\* The rows in the order of the ORDER BY clause
RECURSIVE OrderBy(_)
OrderBy(rows) ==
    IF rows = {} THEN <<>>
    ELSE LET first == CHOOSE r \in rows : \A o \in rows \ {r} : Precedes(r, o)
         IN  <<first>> \o OrderBy(rows \ {first})

\* cursor.execute(query, params) and cursor.fetchall() for a SELECT * FROM
\* signal_raw WHERE 1=1 AND where... ORDER BY asof_date DESC, ticker,
\* signal_name; the statement fails when the table does not exist
CursorSelect(g, where) ==
    IF ~g.table_exists THEN [exc |-> "PgError", results |-> <<>>]
    ELSE [exc |-> "none",
          results |-> OrderBy({ r \in g.signal_raw :
                                  \A k \in 1..Len(where) : Satisfies(r, where[k]) })]

\* The columns of the rows read back (the surrogate id is left out of the
\* model of the table)
StoredColumns == {"asof_date", "ticker", "signal_name", "value", "metadata",
                  "created_at"}

execute_query(g, where, env) ==
    LET ec == ensure_connection(g, env)
        ex == CursorSelect(ec.g, where)
    IN  IF ec.exc # "none" THEN Raises(ec.g, ec.exc)
        ELSE IF ~ec.ret THEN Returns(ec.g, PyNone)
        ELSE IF ex.exc = "PgError" THEN Returns(Sent(ec.g, 1), PyNone)
        ELSE IF ex.results # <<>>
        THEN Returns(Sent(ec.g, 1),
                     PyDataFrame([columns |-> StoredColumns, rows |-> ex.results]))
        ELSE Returns(Sent(ec.g, 1), PyDataFrame([columns |-> {}, rows |-> <<>>]))

\* The conditions get_signals_raw adds to its query, without the one on
\* end_date
WhereClausesWithoutEndDate(tickers, signal_names, start_date, end_date) ==
    (IF Truthy(tickers)
     THEN <<[col |-> "ticker", op |-> "IN", v |-> tickers.v]>> ELSE <<>>)
    \o (IF Truthy(signal_names)
        THEN <<[col |-> "signal_name", op |-> "IN", v |-> signal_names.v]>>
        ELSE <<>>)
    \o (IF Truthy(start_date)
        THEN <<[col |-> "asof_date", op |-> ">=", v |-> start_date]>> ELSE <<>>)

\* The conditions get_signals_raw adds to its query
WhereClauses(tickers, signal_names, start_date, end_date) ==
    (IF Truthy(tickers)
     THEN <<[col |-> "ticker", op |-> "IN", v |-> tickers.v]>> ELSE <<>>)
    \o (IF Truthy(signal_names)
        THEN <<[col |-> "signal_name", op |-> "IN", v |-> signal_names.v]>>
        ELSE <<>>)
    \o (IF Truthy(start_date)
        THEN <<[col |-> "asof_date", op |-> ">=", v |-> start_date]>> ELSE <<>>)
    \o (IF Truthy(end_date)
        THEN <<[col |-> "asof_date", op |-> "<=", v |-> end_date]>> ELSE <<>>)

get_signals_raw(g, tickers, signal_names, start_date, end_date, env) ==
    execute_query(g, WhereClauses(tickers, signal_names, start_date, end_date), env)

\* The parameter tuple store_signals_raw builds for one signal
SignalParams(signal, now) ==
    [asof_date |-> signal.asof_date, ticker |-> signal.ticker,
     signal_name |-> signal.signal_name, value |-> signal.value,
     metadata |-> IF Truthy(signal.metadata)
                  THEN JsonDumps(signal.metadata) ELSE PyNone,
     created_at |-> IF Truthy(signal.created_at)
                    THEN signal.created_at ELSE PyDatetime(now)]

store_signals_raw(g, signals, env, now) ==
    IF signals = <<>> THEN Returns(g, 0)
    ELSE IF \E i \in 1..Len(signals) :
                Truthy(signals[i].metadata) /\ ~JsonSerializable(signals[i].metadata)
    THEN Raises(g, "TypeError")
    ELSE execute_many(g, [i \in 1..Len(signals) |-> SignalParams(signals[i], now)], env)

\* CREATE TABLE sent without the existence check: the server rejects it when
\* the table is there
CreateWithoutExistenceCheck(g, env) ==
    LET ec == ensure_connection(g, env)
    IN  IF ec.exc # "none" THEN Raises(ec.g, ec.exc)
        ELSE IF ~ec.ret THEN Returns(ec.g, FALSE)
        ELSE IF ec.g.table_exists \/ env.ddl = "PgError"
        THEN Returns(Sent(ec.g, 1), FALSE)
        ELSE IF env.ddl = "PgErrorIndex"
        THEN Returns([Sent(ec.g, 3) EXCEPT !.table_exists = TRUE,
                          !.signal_raw = {},
                          !.indexes = {"idx_signal_raw_asof_date"}], FALSE)
        ELSE Returns([Sent(ec.g, 5) EXCEPT !.table_exists = TRUE,
                          !.signal_raw = {}, !.indexes = IndexNames], TRUE)

\* The existence check, CREATE TABLE and the four CREATE INDEX IF NOT EXISTS,
\* each committed on its own by the autocommit connection
create_signal_raw_table(g, env) ==
    LET ec == ensure_connection(g, env)
    IN  IF ec.exc # "none" THEN Raises(ec.g, ec.exc)
        ELSE IF ~ec.ret THEN Returns(ec.g, FALSE)
        ELSE IF ec.g.table_exists THEN Returns(Sent(ec.g, 1), TRUE)
        ELSE IF env.ddl = "PgError" THEN Returns(Sent(ec.g, 2), FALSE)
        ELSE IF env.ddl = "PgErrorIndex"
        THEN Returns([Sent(ec.g, 4) EXCEPT !.table_exists = TRUE,
                          !.signal_raw = {},
                          !.indexes = {"idx_signal_raw_asof_date"}], FALSE)
        ELSE Returns([Sent(ec.g, 6) EXCEPT !.table_exists = TRUE,
                          !.signal_raw = {}, !.indexes = IndexNames], TRUE)

reset_sequence(g, env) ==
    LET ec == ensure_connection(g, env)
    IN  IF ec.exc # "none" THEN Raises(ec.g, ec.exc)
        ELSE IF ~ec.ret THEN Returns(ec.g, FALSE)
        ELSE IF ~ec.g.table_exists \/ env.setval = "PgError"
        THEN Returns(Sent(ec.g, 1), FALSE)
        ELSE Returns(Sent(ec.g, 1), TRUE)

(***************************************************************************)
(* DataFrameConverter (models.py).  A DataFrame is its set of columns and  *)
(* its rows in order, each row a function from the columns to cells.       *)
(***************************************************************************)
RequiredColumns == <<"asof_date", "ticker", "signal_name", "value">>

\* The first of the required columns that is missing, alone
FirstMissingColumn(df) ==
    LET missing == SelectSeq(RequiredColumns, LAMBDA c : c \notin df.columns)
    IN  IF missing = <<>> THEN <<>> ELSE <<missing[1]>>

\* missing_columns = [col for col in required_columns if col not in df.columns]
MissingColumns(df) == SelectSeq(RequiredColumns, LAMBDA c : c \notin df.columns)

\* df.empty: no rows or no columns
DataFrameEmpty(df) == Len(df.rows) = 0 \/ df.columns = {}

\* The dtype pandas gives a column: float64 for numbers only, datetime64 for
\* datetimes only, object for anything else (strings, dates, maps, mixtures)
Dtype(df, c) ==
    IF \A i \in 1..Len(df.rows) : df.rows[i][c].type = "float" THEN "float64"
    ELSE IF \A i \in 1..Len(df.rows) : df.rows[i][c].type = "datetime"
    THEN "datetime64"
    ELSE "object"

Finding(error, info) == [error |-> error, info |-> info]

\* df.duplicated(subset=..., keep=False).sum(): the rows whose key another row
\* has as well
DuplicatedCountKeepNone(df) ==
    Cardinality({ i \in 1..Len(df.rows) :
                    \E j \in (1..Len(df.rows)) \ {i} :
                        /\ df.rows[j]["asof_date"] = df.rows[i]["asof_date"]
                        /\ df.rows[j]["ticker"] = df.rows[i]["ticker"]
                        /\ df.rows[j]["signal_name"] = df.rows[i]["signal_name"] })

\* df.duplicated(subset=[asof_date, ticker, signal_name]).sum(): the rows that
\* repeat the key of an earlier row
DuplicatedCount(df) ==
    Cardinality({ i \in 1..Len(df.rows) :
                    \E j \in 1..(i - 1) :
                        /\ df.rows[j]["asof_date"] = df.rows[i]["asof_date"]
                        /\ df.rows[j]["ticker"] = df.rows[i]["ticker"]
                        /\ df.rows[j]["signal_name"] = df.rows[i]["signal_name"] })

\* The check of ticker and signal_name taking an empty string as null
ColumnFindingsRejectingEmpty(df, col) ==
    IF col \notin df.columns THEN <<>>
    ELSE IF col = "asof_date"
    THEN IF Dtype(df, col) # "datetime64"
            /\ ~(\A i \in 1..Len(df.rows) : IsDate(df.rows[i][col]))
         THEN <<Finding("Column must contain date objects", <<col>>)>> ELSE <<>>
    ELSE IF col \in {"ticker", "signal_name"}
    THEN IF Dtype(df, col) # "object"
            \/ (\E i \in 1..Len(df.rows) : ~Truthy(df.rows[i][col]))
         THEN <<Finding("Column must contain non-null strings", <<col>>)>> ELSE <<>>
    ELSE IF Dtype(df, col) \notin {"float64"}
         THEN <<Finding("Column must contain numeric values", <<col>>)>> ELSE <<>>

\* The finding, if any, of the dtype check of one required column
ColumnFindings(df, col) ==
    IF col \notin df.columns THEN <<>>
    ELSE IF col = "asof_date"
    THEN IF Dtype(df, col) # "datetime64"
            /\ ~(\A i \in 1..Len(df.rows) : IsDate(df.rows[i][col]))
         THEN <<Finding("Column must contain date objects", <<col>>)>> ELSE <<>>
    ELSE IF col \in {"ticker", "signal_name"}
    THEN IF Dtype(df, col) # "object"
            \/ (\E i \in 1..Len(df.rows) : IsNa(df.rows[i][col]))
         THEN <<Finding("Column must contain non-null strings", <<col>>)>> ELSE <<>>
    ELSE IF Dtype(df, col) \notin {"float64"}
         THEN <<Finding("Column must contain numeric values", <<col>>)>> ELSE <<>>

validate_dataframe(df) ==
    LET missing == MissingColumns(df)
        errors == IF missing # <<>>
                  THEN <<Finding("Missing required columns", missing)>> ELSE <<>>
        dups == IF {"asof_date", "ticker", "signal_name"} \subseteq df.columns
                THEN DuplicatedCount(df) ELSE 0
    IN  IF DataFrameEmpty(df)
        THEN Append(errors, Finding("DataFrame is empty", <<>>))
        ELSE errors
             \o ColumnFindings(df, "asof_date") \o ColumnFindings(df, "ticker")
             \o ColumnFindings(df, "signal_name") \o ColumnFindings(df, "value")
             \o (IF dups > 0
                 THEN <<Finding("Found duplicate signal records", <<dups>>)>>
                 ELSE <<>>)

\* signals_raw_to_dataframe: the six columns and no row for an empty list,
\* else one row per signal, the metadata as JSON text when it is truthy;
\* json.dumps raises TypeError on a value it cannot encode
signals_raw_to_dataframe(signals) ==
    IF signals = <<>>
    THEN [exc |-> "none", df |-> [columns |-> StoredColumns, rows |-> <<>>]]
    ELSE IF \E i \in 1..Len(signals) :
                Truthy(signals[i].metadata) /\ ~JsonSerializable(signals[i].metadata)
    THEN [exc |-> "TypeError", df |-> [columns |-> {}, rows |-> <<>>]]
    ELSE [exc |-> "none",
          df |-> [columns |-> StoredColumns,
                  rows |-> [i \in 1..Len(signals) |->
                      [asof_date |-> signals[i].asof_date,
                       ticker |-> signals[i].ticker,
                       signal_name |-> signals[i].signal_name,
                       value |-> signals[i].value,
                       metadata |-> IF Truthy(signals[i].metadata)
                                    THEN JsonDumps(signals[i].metadata)
                                    ELSE PyNone,
                       created_at |-> signals[i].created_at]]]]

\* The metadata read from one row, text that is not JSON being kept as text
RowMetadataKeepingText(df, row) ==
    IF "metadata" \in df.columns /\ ~IsNa(row["metadata"])
    THEN IF IsStr(row["metadata"])
         THEN IF JsonWellFormed(row["metadata"])
              THEN JsonLoads(row["metadata"]) ELSE row["metadata"]
         ELSE IF row["metadata"].type = "dict" THEN row["metadata"]
         ELSE PyNone
    ELSE PyNone

\* The metadata dataframe_to_signals_raw reads from one row
RowMetadata(df, row) ==
    IF "metadata" \in df.columns /\ ~IsNa(row["metadata"])
    THEN IF IsStr(row["metadata"])
         THEN IF JsonWellFormed(row["metadata"])
              THEN JsonLoads(row["metadata"]) ELSE PyNone
         ELSE IF row["metadata"].type = "dict" THEN row["metadata"]
         ELSE PyNone
    ELSE PyNone

\* The created_at dataframe_to_signals_raw reads from one row
RowCreatedAt(df, row) ==
    IF "created_at" \in df.columns /\ ~IsNa(row["created_at"])
    THEN row["created_at"] ELSE PyNone

Converted(signals) == [exc |-> "none", msg |-> "", info |-> <<>>, signals |-> signals]
ConversionError(msg, info) ==
    [exc |-> "ValueError", msg |-> msg, info |-> info, signals |-> <<>>]

\* The loop of dataframe_to_signals_raw from row i on
RECURSIVE RowsToSignals(_, _, _, _)
RowsToSignals(df, i, signals, now) ==
    IF i > Len(df.rows) THEN Converted(signals)
    ELSE LET row == df.rows[i]
             s == SignalRaw(row["asof_date"], row["ticker"], row["signal_name"],
                            row["value"], RowMetadata(df, row),
                            RowCreatedAt(df, row), now)
         IN  IF s.exc # "none" THEN ConversionError(s.msg, <<>>)
             ELSE RowsToSignals(df, i + 1, Append(signals, s.obj), now)

\* The conversion giving an empty list for a frame that lacks required columns
ConvertReturningNothingOnMissingColumns(df, now) ==
    IF SelectSeq(RequiredColumns, LAMBDA c : c \notin df.columns) # <<>>
    THEN Converted(<<>>)
    ELSE RowsToSignals(df, 1, <<>>, now)

dataframe_to_signals_raw(df, now) ==
    IF MissingColumns(df) # <<>>
    THEN ConversionError("DataFrame missing required columns", MissingColumns(df))
    ELSE RowsToSignals(df, 1, <<>>, now)

(***************************************************************************)
(* SignalInserter (signal_inserter.py).  A method returns the gateway      *)
(* after the call, what it returned, and the calls it made on db_manager,  *)
(* in order.                                                               *)
(***************************************************************************)
\* One call on db_manager: the method, the batch passed (store_signals_raw),
\* what it returned or raised, and the rows of signal_raw before and after
Call(op, batch, r, g) ==
    [op |-> op, batch |-> batch, ret |-> r.ret, exc |-> r.exc,
     before |-> g.signal_raw, after |-> r.g.signal_raw,
     connected |-> is_connected(g),
     connects |-> r.g.connects - g.connects,
     statements |-> r.g.statements - g.statements]

\* The result dictionary of insert_from_dataframe and insert_from_csv
Result(success, processed, inserted, errors) ==
    [success |-> success, records_processed |-> processed,
     records_inserted |-> inserted, errors |-> errors, warnings |-> <<>>]

\* What a method of the inserter hands its caller: the gateway after the call,
\* the value returned, the exception propagated and the calls made
Outcome(g, ret, calls) == [g |-> g, ret |-> ret, exc |-> "none", calls |-> calls]

Min(a, b) == IF a < b THEN a ELSE b

\* The batch loop leaving out a last batch shorter than batch_size
RECURSIVE InsertFullBatchesOnly(_, _, _, _, _, _)
InsertFullBatchesOnly(acc, signals, i, batch_size, env, now) ==
    IF i + batch_size > Len(signals) THEN acc
    ELSE LET batch == SubSeq(signals, i + 1, i + batch_size)
             r == store_signals_raw(acc.g, batch, env, now)
             call == Call("store_signals_raw", batch, r, acc.g)
         IN  InsertFullBatchesOnly(
                 IF r.exc # "none"
                 THEN [acc EXCEPT !.calls = Append(@, call),
                                  !.errors = Append(@,
                                      Finding("Failed to insert batch",
                                              <<(i \div batch_size) + 1>>))]
                 ELSE [acc EXCEPT !.g = r.g, !.calls = Append(@, call),
                                  !.total_inserted = @ + r.ret],
                 signals, i + batch_size, batch_size, env, now)

\* The batch loop of insert_from_dataframe from index i on (a positive
\* batch_size): acc carries the gateway, total_inserted, the errors and the
\* calls made so far
RECURSIVE InsertBatches(_, _, _, _, _, _)
InsertBatches(acc, signals, i, batch_size, env, now) ==
    IF i >= Len(signals) THEN acc
    ELSE LET batch == SubSeq(signals, i + 1, Min(i + batch_size, Len(signals)))
             r == store_signals_raw(acc.g, batch, env, now)
             call == Call("store_signals_raw", batch, r, acc.g)
         IN  InsertBatches(
                 IF r.exc # "none"
                 THEN [acc EXCEPT !.calls = Append(@, call),
                                  !.errors = Append(@,
                                      Finding("Failed to insert batch",
                                              <<(i \div batch_size) + 1>>))]
                 ELSE [acc EXCEPT !.g = r.g, !.calls = Append(@, call),
                                  !.total_inserted = @ + r.ret],
                 signals, i + batch_size, batch_size, env, now)

\* for i in range(0, len(signals), batch_size): ...  A negative step makes
\* the range empty; a zero step makes range() raise ValueError
BatchLoop(g, calls, signals, batch_size, env, now) ==
    LET start == [g |-> g, total_inserted |-> 0, errors |-> <<>>,
                  calls |-> calls, exc |-> "none"]
    IN  IF batch_size > 0
        THEN InsertBatches(start, signals, 0, batch_size, env, now)
        ELSE IF batch_size = 0 THEN [start EXCEPT !.exc = "ValueError"]
        ELSE start

\* success only when every record was counted as inserted
LoopSuccessWhenAllInserted(errors, total_inserted, processed) ==
    Len(errors) = 0 /\ total_inserted = processed

\* result['success'] after the loop
LoopSuccess(errors, total_inserted, processed) == Len(errors) = 0

\* Storing the records of the rows before the one the conversion fails on
ConvertAndInsertStoringPrefix(g, calls, df, batch_size, env, now) ==
    LET conv == dataframe_to_signals_raw(df, now)
        Prefix(n) == RowsToSignals([df EXCEPT !.rows = SubSeq(df.rows, 1, n)],
                                   1, <<>>, now)
        n == CHOOSE n \in 0..Len(df.rows) :
                /\ Prefix(n).exc = "none"
                /\ n < Len(df.rows) => Prefix(n + 1).exc # "none"
        loop == BatchLoop(g, calls,
                          IF MissingColumns(df) # <<>> THEN <<>> ELSE Prefix(n).signals,
                          batch_size, env, now)
    IN  IF conv.exc # "none"
        THEN Outcome(loop.g, Result(FALSE, 0, 0,
                 <<Finding("Failed to convert DataFrame to signals", <<conv.msg>>)>>),
                 loop.calls)
        ELSE IF loop.exc # "none"
        THEN Outcome(loop.g, Result(FALSE, Len(conv.signals), 0,
                 Append(loop.errors,
                        Finding("Unexpected error during insertion", <<>>))),
                 loop.calls)
        ELSE Outcome(loop.g,
                 Result(LoopSuccess(loop.errors, loop.total_inserted,
                                    Len(conv.signals)),
                        Len(conv.signals), loop.total_inserted, loop.errors),
                 loop.calls)

\* Going on to the batch loop with no record when the conversion fails
ConvertAndInsertIgnoringFailure(g, calls, df, batch_size, env, now) ==
    LET conv == dataframe_to_signals_raw(df, now)
        loop == BatchLoop(g, calls, conv.signals, batch_size, env, now)
    IN  IF loop.exc # "none"
        THEN Outcome(loop.g, Result(FALSE, Len(conv.signals), 0,
                 Append(loop.errors,
                        Finding("Unexpected error during insertion", <<>>))),
                 loop.calls)
        ELSE Outcome(loop.g,
                 Result(LoopSuccess(loop.errors, loop.total_inserted,
                                    Len(conv.signals)),
                        Len(conv.signals), loop.total_inserted, loop.errors),
                 loop.calls)

\* insert_from_dataframe from the conversion on, the connection and the
\* schema being ready: g is the gateway and calls the calls made so far
ConvertAndInsert(g, calls, df, batch_size, env, now) ==
    LET conv == dataframe_to_signals_raw(df, now)
        loop == BatchLoop(g, calls, conv.signals, batch_size, env, now)
    IN  IF conv.exc # "none"
        THEN Outcome(g, Result(FALSE, 0, 0,
                 <<Finding("Failed to convert DataFrame to signals", <<conv.msg>>)>>),
                 calls)
        ELSE IF loop.exc # "none"
        THEN \* the outer handler: records_processed is set, success is not
             Outcome(loop.g, Result(FALSE, Len(conv.signals), 0,
                 Append(loop.errors,
                        Finding("Unexpected error during insertion", <<>>))),
                 loop.calls)
        ELSE Outcome(loop.g,
                 Result(LoopSuccess(loop.errors, loop.total_inserted,
                                    Len(conv.signals)),
                        Len(conv.signals), loop.total_inserted, loop.errors),
                 loop.calls)

\* Going on to the conversion whatever create_signal_raw_table returned
BootstrapIgnoringFailure(g, calls, auto, df, batch_size, env, now) ==
    LET ct == create_signal_raw_table(g, env)
        c2 == Append(calls, Call("create_signal_raw_table", <<>>, ct, g))
        rs == reset_sequence(ct.g, env)
        c3 == Append(c2, Call("reset_sequence", <<>>, rs, ct.g))
    IN  IF ~auto THEN ConvertAndInsert(g, calls, df, batch_size, env, now)
        ELSE ConvertAndInsert(rs.g, c3, df, batch_size, env, now)

\* Ending the call when reset_sequence returns False
BootstrapAbortingOnResetFailure(g, calls, auto, df, batch_size, env, now) ==
    LET ct == create_signal_raw_table(g, env)
        c2 == Append(calls, Call("create_signal_raw_table", <<>>, ct, g))
        rs == reset_sequence(ct.g, env)
        c3 == Append(c2, Call("reset_sequence", <<>>, rs, ct.g))
    IN  IF ~auto THEN ConvertAndInsert(g, calls, df, batch_size, env, now)
        ELSE IF ~ct.ret
        THEN Outcome(ct.g, Result(FALSE, 0, 0,
                 <<Finding("Failed to create signal_raw table", <<>>)>>), c2)
        ELSE IF ~rs.ret
        THEN Outcome(rs.g, Result(FALSE, 0, 0,
                 <<Finding("Failed to reset sequence", <<>>)>>), c3)
        ELSE ConvertAndInsert(rs.g, c3, df, batch_size, env, now)

\* insert_from_dataframe from the schema bootstrap on, the connection being
\* ready
BootstrapAndInsert(g, calls, auto, df, batch_size, env, now) ==
    LET ct == create_signal_raw_table(g, env)
        c2 == Append(calls, Call("create_signal_raw_table", <<>>, ct, g))
        rs == reset_sequence(ct.g, env)
        c3 == Append(c2, Call("reset_sequence", <<>>, rs, ct.g))
    IN  IF ~auto THEN ConvertAndInsert(g, calls, df, batch_size, env, now)
        ELSE IF ~ct.ret
        THEN Outcome(ct.g, Result(FALSE, 0, 0,
                 <<Finding("Failed to create signal_raw table", <<>>)>>), c2)
        ELSE ConvertAndInsert(rs.g, c3, df, batch_size, env, now)

\* The exception going on to the caller, no handler being there
Propagated(g, calls) == [Outcome(g, PyNone, calls) EXCEPT !.exc = "UnicodeDecodeError"]

\* What the outer handler of insert_from_dataframe returns for an exception
\* raised before the conversion
Unexpected(g, calls) ==
    Outcome(g, Result(FALSE, 0, 0,
                      <<Finding("Unexpected error during insertion", <<>>)>>), calls)

\* Going on to the schema bootstrap whatever ensure_connection returned
ConnectAndInsertUnchecked(g, auto, df, batch_size, env, now) ==
    IF ensure_connection(g, env).exc # "none"
    THEN Unexpected(ensure_connection(g, env).g,
                    <<Call("ensure_connection", <<>>, ensure_connection(g, env), g)>>)
    ELSE BootstrapAndInsert(ensure_connection(g, env).g,
                       <<Call("ensure_connection", <<>>, ensure_connection(g, env), g)>>,
                       auto, df, batch_size, env, now)

\* insert_from_dataframe from the connection on, the validation being done
ConnectAndInsert(g, auto, df, batch_size, env, now) ==
    LET ec == ensure_connection(g, env)
        c1 == <<Call("ensure_connection", <<>>, ec, g)>>
    IN  IF ec.exc # "none" THEN Unexpected(ec.g, c1)
        ELSE IF ~ec.ret
        THEN Outcome(ec.g, Result(FALSE, 0, 0,
                 <<Finding("Failed to connect to database", <<>>)>>), c1)
        ELSE BootstrapAndInsert(ec.g, c1, auto, df, batch_size, env, now)

\* Going on to the connection whatever validate_dataframe found
InsertIgnoringFindings(g, auto, df, validate, batch_size, env, now) ==
    ConnectAndInsert(g, auto, df, batch_size, env, now)

insert_from_dataframe(g, auto, df, validate, batch_size, env, now) ==
    LET validation_errors == validate_dataframe(df)
    IN  IF validate /\ validation_errors # <<>>
        THEN Outcome(g, Result(FALSE, 0, 0, validation_errors), <<>>)
        ELSE ConnectAndInsert(g, auto, df, batch_size, env, now)

(***************************************************************************)
(* insert_from_csv.  A file is on disk or not (exists); its bytes decode   *)
(* as UTF-8 or not (decodable); its text is a header line and data lines,  *)
(* each line the text of its cells.  A file of no bytes has no header.     *)
(***************************************************************************)
\* csv_path.stat().st_size == 0
ZeroLength(file) == file.header = <<>> /\ file.lines = <<>>

\* The texts pandas reads as a date, with the day they denote, and the texts
\* it reads as a number, with the number
DateTexts == { <<"2024-01-15", 1>>, <<"2024-01-16", 2>> }
NumberTexts == { <<"0.75", 75>>, <<"0.82", 82>>, <<"0.9", 90>> }

IsDateText(t) == \E p \in DateTexts : p[1] = t
IsNumberText(t) == \E p \in NumberTexts : p[1] = t
DateOfText(t) == (CHOOSE p \in DateTexts : p[1] = t)[2]
NumberOfText(t) == (CHOOSE p \in NumberTexts : p[1] = t)[2]

\* The position of a column in the header
ColumnIndex(header, c) == CHOOSE k \in 1..Len(header) : header[k] = c

\* The texts of column c, line by line
ColumnTexts(file, c) ==
    [i \in 1..Len(file.lines) |-> file.lines[i][ColumnIndex(file.header, c)]]

\* The cell pd.read_csv(..., parse_dates=['asof_date']) makes of a text: an
\* empty cell is NaN; a column of numbers only is float64; asof_date becomes
\* datetime64 when every cell is a date and is left as text otherwise; any
\* other cell is its text
CsvCell(file, c, text) ==
    LET texts == ColumnTexts(file, c)
    IN  IF text = "" THEN PyNone
        ELSE IF c = "asof_date"
        THEN IF \A i \in 1..Len(texts) : IsDateText(texts[i])
             THEN PyDatetime(DateOfText(text)) ELSE PyStr(text)
        ELSE IF \A i \in 1..Len(texts) : IsNumberText(texts[i])
        THEN PyNum(NumberOfText(text))
        ELSE PyStr(text)

\* pd.read_csv: UnicodeDecodeError for bytes that do not decode, ValueError
\* for a parse_dates column the header does not have
read_csv(file) ==
    IF ~file.decodable
    THEN [exc |-> "UnicodeDecodeError", df |-> [columns |-> {}, rows |-> <<>>]]
    ELSE IF \A k \in 1..Len(file.header) : file.header[k] # "asof_date"
    THEN [exc |-> "ValueError", df |-> [columns |-> {}, rows |-> <<>>]]
    ELSE [exc |-> "none",
          df |-> [columns |-> { file.header[k] : k \in 1..Len(file.header) },
                  rows |-> [i \in 1..Len(file.lines) |->
                      [c \in { file.header[k] : k \in 1..Len(file.header) } |->
                          CsvCell(file, c, file.lines[i][ColumnIndex(file.header, c)])]]]]

\* df['asof_date'] = pd.to_datetime(df['asof_date']).dt.date: raises on a
\* text that is no date
to_date_column(df) ==
    IF \E i \in 1..Len(df.rows) : df.rows[i]["asof_date"].type = "str"
    THEN [exc |-> "ValueError", df |-> df]
    ELSE [exc |-> "none",
          df |-> [df EXCEPT !.rows =
                    [i \in 1..Len(df.rows) |->
                        [df.rows[i] EXCEPT !["asof_date"] =
                            IF @.type = "datetime" THEN PyDate(@.v) ELSE @]]]]

\* The result of insert_from_csv when it returns before delegating
CsvError(g, error) == Outcome(g, Result(FALSE, 0, 0, <<Finding(error, <<>>)>>), <<>>)

\* Handing a table of no rows on to insert_from_dataframe
InsertFromCsvDelegatingNoData(g, auto, file, validate, batch_size, env, now) ==
    LET read == read_csv(file)
        dated == to_date_column(read.df)
    IN  IF ~file.exists THEN CsvError(g, "CSV file not found")
        ELSE IF ZeroLength(file) THEN CsvError(g, "CSV file is empty")
        ELSE IF read.exc # "none" THEN CsvError(g, "Failed to read CSV file")
        ELSE IF dated.exc # "none" THEN CsvError(g, "Failed to parse asof_date column")
        ELSE insert_from_dataframe(g, auto, dated.df, validate, batch_size, env, now)

insert_from_csv(g, auto, file, validate, batch_size, env, now) ==
    LET read == read_csv(file)
        dated == to_date_column(read.df)
    IN  IF ~file.exists THEN CsvError(g, "CSV file not found")
        ELSE IF ZeroLength(file) THEN CsvError(g, "CSV file is empty")
        ELSE IF read.exc # "none" THEN CsvError(g, "Failed to read CSV file")
        ELSE IF DataFrameEmpty(read.df) THEN CsvError(g, "CSV file contains no data")
        ELSE IF dated.exc # "none" THEN CsvError(g, "Failed to parse asof_date column")
        ELSE insert_from_dataframe(g, auto, dated.df, validate, batch_size, env, now)

\* success = inserted_count >= 0
SingleSuccessNonNegative(inserted_count) == inserted_count >= 0

\* success = inserted_count > 0
SingleSuccess(inserted_count) == inserted_count > 0

\* insert_single_signal from the store on, the connection and the schema
\* being ready; the handler turns an exception into False
StoreSingle(g, calls, signal, env, now) ==
    LET r == store_signals_raw(g, <<signal>>, env, now)
        call == Call("store_signals_raw", <<signal>>, r, g)
    IN  IF r.exc # "none" THEN Outcome(g, FALSE, Append(calls, call))
        ELSE Outcome(r.g, SingleSuccess(r.ret), Append(calls, call))

\* insert_single_signal from the connection on, the record being built
ConnectAndStoreSingle(g, auto, signal, env, now) ==
    LET ec == ensure_connection(g, env)
        c1 == <<Call("ensure_connection", <<>>, ec, g)>>
        ct == create_signal_raw_table(ec.g, env)
        c2 == Append(c1, Call("create_signal_raw_table", <<>>, ct, ec.g))
        rs == reset_sequence(ct.g, env)
        c3 == Append(c2, Call("reset_sequence", <<>>, rs, ct.g))
    IN  IF ec.exc # "none" THEN Outcome(ec.g, FALSE, c1)
        ELSE IF ~ec.ret THEN Outcome(ec.g, FALSE, c1)
        ELSE IF ~auto THEN StoreSingle(ec.g, c1, signal, env, now)
        ELSE IF ~ct.ret THEN Outcome(ct.g, FALSE, c2)
        ELSE StoreSingle(rs.g, c3, signal, env, now)

\* Building the record only after the connection is ensured
InsertSingleConnectingFirst(g, auto, asof_date, ticker, signal_name, value, metadata, env, now) ==
    LET s == SignalRaw(asof_date, ticker, signal_name, value, metadata, PyNone, now)
        ec == ensure_connection(g, env)
    IN  IF s.exc # "none"
        THEN Outcome(ec.g, FALSE, <<Call("ensure_connection", <<>>, ec, g)>>)
        ELSE ConnectAndStoreSingle(g, auto, s.obj, env, now)

insert_single_signal(g, auto, asof_date, ticker, signal_name, value, metadata, env, now) ==
    LET s == SignalRaw(asof_date, ticker, signal_name, value, metadata, PyNone, now)
    IN  IF s.exc # "none" THEN Outcome(g, FALSE, <<>>)
        ELSE ConnectAndStoreSingle(g, auto, s.obj, env, now)

\* get_existing_signals: what get_signals_raw returns is returned as it is;
\* the handler turns an exception of ensure_connection into an empty frame
get_existing_signals(g, tickers, signal_names, start_date, end_date, env) ==
    LET ec == ensure_connection(g, env)
        c1 == <<Call("ensure_connection", <<>>, ec, g)>>
        q == get_signals_raw(ec.g, tickers, signal_names, start_date, end_date, env)
    IN  IF ec.exc # "none" \/ ~ec.ret
        THEN Outcome(ec.g, PyDataFrame([columns |-> {}, rows |-> <<>>]), c1)
        ELSE Outcome(q.g, q.ret, Append(c1, Call("get_signals_raw", <<>>, q, ec.g)))

\* SignalInserter.close
close(g) ==
    Outcome(disconnect(g).g, PyNone, <<Call("disconnect", <<>>, disconnect(g), g)>>)

(***************************************************************************)
(* The inputs the callers of the model draw from.                          *)
(***************************************************************************)
SentimentYt == PyStr("SENTIMENT_YT")
LongTicker == PyStr("ALPHABET_CLASS_A_SHARES_US")

\* The sequences of length 0..n over pool
SeqsUpTo(pool, n) == UNION { [1..k -> pool] : k \in 0..n }

\* A SignalRaw a caller of the gateway built at time created on the clock
Signal(d, ticker, value, metadata, created) ==
    SignalRaw(PyDate(d), ticker, SentimentYt, PyNum(value), metadata, PyNone,
              created).obj

SignalPool ==
    { Signal(1, PyStr("AAPL"), 75, PyNone, 1),
      Signal(1, PyStr("AAPL"), 90, PyDict(YoutubeMap), 2),
      Signal(1, PyStr("MSFT"), 82, PyDict({}), 1),
      Signal(1, LongTicker, 75, PyNone, 1),
      Signal(2, PyStr("AAPL"), 75, PyDict(DatedMap), 1),
      Signal(2, PyStr("MSFT"), 82, PyNone, 1),
      SignalRaw(PyDate(1), PyStr("AAPL"), PyStr("MOMENTUM_1M"), PyNum(75),
                PyNone, PyNone, 1).obj }

SignalBatches == SeqsUpTo(SignalPool, MaxBatch)

\* The environments of one call: all well, or one thing failing.  (A second
\* failure behind the first is never consulted by the code.)
EnvOk == [connect |-> "ok", ddl |-> "ok", setval |-> "ok"]
Envs == { EnvOk, [EnvOk EXCEPT !.connect = "PgError"],
          [EnvOk EXCEPT !.connect = "UnicodeDecodeError"],
          [EnvOk EXCEPT !.ddl = "PgError"], [EnvOk EXCEPT !.ddl = "PgErrorIndex"],
          [EnvOk EXCEPT !.setval = "PgError"] }

\* The filters of get_signals_raw and get_existing_signals
Filters ==
    [tickers : {PyNone, PyList(<<>>), PyList(<<PyStr("AAPL")>>),
                PyList(<<PyStr("AAPL"), PyStr("MSFT")>>)},
     signal_names : {PyNone, PyList(<<SentimentYt>>)},
     start_date : {PyNone, PyDate(2)},
     end_date : {PyNone, PyDate(1)}]

\* The filters the inserter is asked for
ExistingFilters ==
    { f \in Filters : f.signal_names = PyNone /\ f.start_date = PyNone
                        /\ f.tickers \in {PyNone, PyList(<<PyStr("AAPL")>>)} }

\* DataFrames with the required columns and a metadata column
FrameColumns == {"asof_date", "ticker", "signal_name", "value", "metadata"}

Row(asof_date, ticker, signal_name, value, metadata) ==
    [asof_date |-> asof_date, ticker |-> ticker, signal_name |-> signal_name,
     value |-> value, metadata |-> metadata]

DataFrame(rows) == [columns |-> FrameColumns, rows |-> rows]

\* df.drop(columns=cs)
DropColumns(df, cs) ==
    [columns |-> df.columns \ cs,
     rows |-> [i \in 1..Len(df.rows) |-> [c \in df.columns \ cs |-> df.rows[i][c]]]]

\* Rows that convert to records; the server rejects the third one
RowPool ==
    { Row(PyDate(1), PyStr("AAPL"), SentimentYt, PyNum(75), PyNone),
      Row(PyDate(1), PyStr("AAPL"), SentimentYt, PyNum(90),
          PyStr("{\"source\":\"youtube\"}")),
      Row(PyDate(1), LongTicker, SentimentYt, PyNum(75), PyNone) }

\* A row that converts to a record whose metadata json.dumps cannot encode
DatedRow == Row(PyDate(2), PyStr("AAPL"), SentimentYt, PyNum(75), PyDict(DatedMap))

\* Rows with a cell that validation or record construction rejects
BadRowPool ==
    { Row(PyStr("2024-01-15"), PyStr("AAPL"), SentimentYt, PyNum(75), PyNone),
      Row(PyDate(1), PyStr(""), SentimentYt, PyNum(75), PyNone),
      Row(PyDate(1), PyNone, SentimentYt, PyNum(75), PyNone),
      Row(PyDate(1), PyStr("AAPL"), PyStr(""), PyNum(75), PyNone),
      Row(PyDate(1), PyStr("AAPL"), SentimentYt, PyStr("0.75"), PyNone) }

GoodRow == Row(PyDate(1), PyStr("MSFT"), SentimentYt, PyNum(82), PyDict({}))

\* Five rows of five keys
FiveRows ==
    << Row(PyDate(1), PyStr("AAPL"), SentimentYt, PyNum(75), PyNone),
       Row(PyDate(1), PyStr("MSFT"), SentimentYt, PyNum(82), PyNone),
       Row(PyDate(2), PyStr("AAPL"), SentimentYt, PyNum(90), PyNone),
       Row(PyDate(2), PyStr("MSFT"), SentimentYt, PyNum(75), PyNone),
       Row(PyDate(3), PyStr("AAPL"), SentimentYt, PyNum(82), PyNone) >>

\* Three rows, the server rejecting the one in the middle
MiddleRejectedRows ==
    << Row(PyDate(1), PyStr("AAPL"), SentimentYt, PyNum(75), PyNone),
       Row(PyDate(1), LongTicker, SentimentYt, PyNum(75), PyNone),
       Row(PyDate(1), PyStr("MSFT"), SentimentYt, PyNum(82), PyNone) >>

GoodFrames ==
    { DataFrame(rows) : rows \in SeqsUpTo(RowPool, MaxRows) }
    \cup { DataFrame(<<DatedRow>>), DataFrame(<<GoodRow, DatedRow>>),
           DataFrame(<<DatedRow, GoodRow>>), DataFrame(<<GoodRow>>),
           DataFrame(<<GoodRow, GoodRow>>), DataFrame(FiveRows),
           DataFrame(MiddleRejectedRows) }

OddFrames ==
    { DataFrame(<<bad>>) : bad \in BadRowPool }
    \cup { DataFrame(<<GoodRow, bad>>) : bad \in BadRowPool }
    \cup { DropColumns(DataFrame(<<GoodRow>>), {c}) :
              c \in {"asof_date", "value", "metadata"} }
    \cup { DropColumns(DataFrame(<<GoodRow>>), {"asof_date", "ticker"}) }

BatchSizes == (-1)..MaxBatch

\* The calls of insert_from_dataframe: every frame that converts with every
\* batch size in a healthy environment, and every environment with the small
\* frames and those that do not validate or convert
InsertCalls ==
    [df : GoodFrames, validate : BOOLEAN, batch_size : BatchSizes, env : {EnvOk}]
    \cup [df : OddFrames \cup { DataFrame(rows) : rows \in SeqsUpTo(RowPool, 1) },
          validate : BOOLEAN, batch_size : {MaxBatch}, env : Envs]

\* The rows the converter is given: those above, a row whose metadata is a
\* map, and one whose metadata is text that is not JSON
MapRow == Row(PyDate(2), PyStr("AAPL"), SentimentYt, PyNum(90), PyDict(YoutubeMap))
MalformedRow == Row(PyDate(1), PyStr("MSFT"), SentimentYt, PyNum(75), PyStr("{source"))

EmptyTickerRow == Row(PyDate(1), PyStr(""), SentimentYt, PyNum(75), PyNone)

ConverterRows ==
    RowPool \cup BadRowPool \cup {GoodRow, DatedRow, MapRow, MalformedRow}

\* df.assign(created_at=...): the frame with a created_at column, set in the
\* first row and null in the others
WithCreatedAt(df) ==
    [columns |-> df.columns \cup {"created_at"},
     rows |-> [i \in 1..Len(df.rows) |->
                 [c \in df.columns \cup {"created_at"} |->
                     IF c # "created_at" THEN df.rows[i][c]
                     ELSE IF i = 1 THEN PyDatetime(1) ELSE PyNone]]]

\* The frames given to validate_dataframe and dataframe_to_signals_raw: all
\* columns, some dropped, and a created_at column added
ConverterFrames ==
    LET full == { DataFrame(rows) : rows \in SeqsUpTo(ConverterRows, MaxRows) }
        few == { DataFrame(rows) :
                   rows \in SeqsUpTo({GoodRow, MalformedRow, EmptyTickerRow}, MaxRows) }
    IN  full
        \cup { DropColumns(df, cs) :
                  df \in few,
                  cs \in {{"metadata"}, {"asof_date"}, {"value", "ticker"},
                          {"signal_name", "metadata"}, FrameColumns} }
        \cup { WithCreatedAt(df) : df \in few }

\* The arguments of the SignalRaw constructor
SignalRawArgs ==
    [asof_date : {PyDate(1), PyDatetime(1), PyStr("2024-01-15"), PyNone},
     ticker : {PyStr("AAPL"), PyStr(""), PyNone, PyNum(1)},
     signal_name : {SentimentYt, PyStr(""), PyNone},
     value : {PyNum(75), PyNum(0), PyStr("0.75"), PyNone},
     metadata : {PyNone, PyDict(YoutubeMap)},
     created_at : {PyNone, PyDatetime(1)}]

\* The calls of insert_single_signal
SingleCalls ==
    [asof_date : {PyDate(1), PyStr("2024-01-15")},
     ticker : {PyStr("AAPL"), PyStr(""), LongTicker},
     signal_name : {SentimentYt, PyStr("")},
     value : {PyNum(75), PyStr("0.75")},
     metadata : {PyNone, PyDict(YoutubeMap), PyDict(DatedMap)},
     env : Envs]

\* The CSV files: the lines of text they may hold
CsvHeader == <<"asof_date", "ticker", "signal_name", "value", "metadata">>

CsvLinePool ==
    { <<"2024-01-15", "AAPL", "SENTIMENT_YT", "0.75", "">>,
      <<"2024-01-15", "AAPL", "SENTIMENT_YT", "0.9", "{\"source\":\"youtube\"}">>,
      <<"2024-01-16", "MSFT", "SENTIMENT_YT", "0.82", "">>,
      <<"yesterday", "AAPL", "SENTIMENT_YT", "0.75", "">>,
      <<"2024-01-15", "AAPL", "SENTIMENT_YT", "high", "">>,
      <<"2024-01-15", "", "SENTIMENT_YT", "0.75", "">> }

CsvFile(exists, decodable, header, lines) ==
    [exists |-> exists, decodable |-> decodable, header |-> header, lines |-> lines]

\* A file that is not there, a file of no bytes, bytes that are not text, a
\* header alone, a file without the date column, one without the value
\* column, and the files of one line or more
CsvFiles ==
    { CsvFile(FALSE, TRUE, CsvHeader, <<>>),
      CsvFile(TRUE, TRUE, <<>>, <<>>),
      CsvFile(TRUE, FALSE, CsvHeader, <<>>),
      CsvFile(TRUE, TRUE, CsvHeader, <<>>),
      CsvFile(TRUE, TRUE, <<"ticker", "signal_name", "value">>,
              << <<"AAPL", "SENTIMENT_YT", "0.75">> >>),
      CsvFile(TRUE, TRUE, <<"asof_date", "ticker", "signal_name">>,
              << <<"2024-01-15", "AAPL", "SENTIMENT_YT">> >>) }
    \cup { CsvFile(TRUE, TRUE, CsvHeader, lines) :
              lines \in SeqsUpTo(CsvLinePool, MaxRows) \ {<<>>} }

\* The calls of insert_from_csv
CsvCalls ==
    [file : CsvFiles, validate : BOOLEAN, batch_size : {MaxBatch}, env : Envs]
    \cup [file : CsvFiles, validate : {TRUE}, batch_size : {1}, env : {EnvOk}]

(***************************************************************************)
(* The state machine.                                                      *)
(***************************************************************************)
IdleCall == [op |-> "idle", calls |-> <<>>]

Idle == last.op = "idle"

Init ==
    /\ connection = "None"
    /\ autocommit = FALSE
    /\ table_exists \in BOOLEAN
    /\ indexes = IF table_exists THEN IndexNames ELSE {}
    /\ signal_raw = {}
    /\ auto_create_table \in BOOLEAN
    /\ clock = 1
    /\ last = IdleCall
    /\ schema_ensured = FALSE

\* The gateway after a call
Install(g) ==
    /\ connection' = g.connection
    /\ autocommit' = g.autocommit
    /\ table_exists' = g.table_exists
    /\ indexes' = g.indexes
    /\ signal_raw' = g.signal_raw

\* Whether one of the calls is a create_signal_raw_table that returned True
EnsuresSchema(calls) ==
    \E k \in 1..Len(calls) :
        calls[k].op = "create_signal_raw_table" /\ calls[k].exc = "none" /\ calls[k].ret

\* A call on the gateway itself; last.ensured is schema_ensured as the call
\* found it
GatewayCall(op, batch, r) ==
    /\ Install(r.g)
    /\ last' = [op |-> op, args |-> batch, ret |-> r.ret, exc |-> r.exc,
                calls |-> <<Call(op, batch, r, Gateway)>>,
                ensured |-> schema_ensured]
    /\ schema_ensured' = (schema_ensured \/ EnsuresSchema(last'.calls))
    /\ UNCHANGED <<auto_create_table, clock>>

\* A call on the inserter
InserterCall(op, args, out) ==
    /\ Install(out.g)
    /\ last' = [op |-> op, args |-> args, ret |-> out.ret, exc |-> out.exc,
                calls |-> out.calls, ensured |-> schema_ensured]
    /\ schema_ensured' = (schema_ensured \/ EnsuresSchema(out.calls))
    /\ UNCHANGED <<auto_create_table, clock>>

Connect ==
    /\ Idle
    /\ \E env \in Envs : GatewayCall("connect", <<>>, connect(Gateway, env))

Disconnect ==
    /\ Idle
    /\ GatewayCall("disconnect", <<>>, disconnect(Gateway))

CreateSignalRawTable ==
    /\ Idle
    /\ \E env \in Envs :
          GatewayCall("create_signal_raw_table", <<>>,
                      create_signal_raw_table(Gateway, env))

ResetSequence ==
    /\ Idle
    /\ \E env \in Envs :
          GatewayCall("reset_sequence", <<>>, reset_sequence(Gateway, env))

StoreSignalsRaw ==
    /\ Idle
    /\ \E signals \in SignalBatches, env \in Envs :
          GatewayCall("store_signals_raw", signals,
                      store_signals_raw(Gateway, signals, env, clock))

InsertFromDataframe ==
    /\ Idle
    /\ \E c \in InsertCalls :
          InserterCall("insert_from_dataframe",
              [df |-> c.df, validate |-> c.validate, batch_size |-> c.batch_size],
              insert_from_dataframe(Gateway, auto_create_table, c.df, c.validate,
                                    c.batch_size, c.env, clock))

InsertSingleSignal ==
    /\ Idle
    /\ \E c \in SingleCalls :
          InserterCall("insert_single_signal",
              [asof_date |-> c.asof_date, ticker |-> c.ticker,
               signal_name |-> c.signal_name, value |-> c.value,
               metadata |-> c.metadata],
              insert_single_signal(Gateway, auto_create_table, c.asof_date,
                                   c.ticker, c.signal_name, c.value, c.metadata,
                                   c.env, clock))

\* args.env is the environment the call ran in, not an argument
InsertFromCsv ==
    /\ Idle
    /\ \E c \in CsvCalls :
          InserterCall("insert_from_csv",
              [file |-> c.file, validate |-> c.validate,
               batch_size |-> c.batch_size, env |-> c.env],
              insert_from_csv(Gateway, auto_create_table, c.file, c.validate,
                              c.batch_size, c.env, clock))

EnsureConnection ==
    /\ Idle
    /\ \E env \in Envs :
          GatewayCall("ensure_connection", <<>>, ensure_connection(Gateway, env))

GetSignalsRaw ==
    /\ Idle
    /\ \E f \in Filters, env \in Envs :
          GatewayCall("get_signals_raw", f,
                      get_signals_raw(Gateway, f.tickers, f.signal_names,
                                      f.start_date, f.end_date, env))

GetExistingSignals ==
    /\ Idle
    /\ \E f \in ExistingFilters, env \in Envs :
          InserterCall("get_existing_signals", f,
                       get_existing_signals(Gateway, f.tickers, f.signal_names,
                                            f.start_date, f.end_date, env))

\* A call of a function that touches neither the gateway nor the database
ConverterCall(op, args, ret, exc, error) ==
    /\ last' = [op |-> op, args |-> args, ret |-> ret, exc |-> exc,
                error |-> error, calls |-> <<>>, ensured |-> schema_ensured]
    /\ UNCHANGED <<connection, autocommit, table_exists, indexes, signal_raw,
                   auto_create_table, clock, schema_ensured>>

NewSignalRaw ==
    /\ Idle
    /\ \E a \in SignalRawArgs :
          LET s == SignalRaw(a.asof_date, a.ticker, a.signal_name, a.value,
                             a.metadata, a.created_at, clock)
          IN  IF s.exc = "none"
              THEN ConverterCall("SignalRaw", a, s.obj, "none", "")
              ELSE ConverterCall("SignalRaw", a, PyNone, s.exc, s.msg)

ValidateDataframe ==
    /\ Idle
    /\ \E df \in ConverterFrames :
          ConverterCall("validate_dataframe", [df |-> df],
                        validate_dataframe(df), "none", "")

DataframeToSignalsRaw ==
    /\ Idle
    /\ \E df \in ConverterFrames :
          LET r == dataframe_to_signals_raw(df, clock)
          IN  ConverterCall("dataframe_to_signals_raw", [df |-> df], r.signals,
                            r.exc, Finding(r.msg, r.info))

\* signals_raw_to_dataframe on the list the last dataframe_to_signals_raw
\* returned; args.df is the frame that list was converted from
SignalsRawToDataframe ==
    /\ last.op = "dataframe_to_signals_raw"
    /\ last.exc = "none"
    /\ LET r == signals_raw_to_dataframe(last.ret)
       IN  ConverterCall("signals_raw_to_dataframe",
                         [signals |-> last.ret, df |-> last.args.df],
                         r.df, r.exc, "")

Close ==
    /\ Idle
    /\ InserterCall("close", <<>>, close(Gateway))

\* Time passes
Tick ==
    /\ Idle
    /\ clock < MaxClock
    /\ clock' = clock + 1
    /\ UNCHANGED <<connection, autocommit, table_exists, indexes, signal_raw,
                   auto_create_table, last, schema_ensured>>

\* The caller is done with what the call returned
Return ==
    /\ ~Idle
    /\ last' = IdleCall
    /\ UNCHANGED <<connection, autocommit, table_exists, indexes, signal_raw,
                   auto_create_table, clock, schema_ensured>>

\* The gateway used directly
Next ==
    \/ Connect
    \/ Disconnect
    \/ EnsureConnection
    \/ GetSignalsRaw
    \/ CreateSignalRawTable
    \/ ResetSequence
    \/ StoreSignalsRaw
    \/ Tick
    \/ Return

Spec == Init /\ [][Next]_vars

\* The inserter
NextInserter ==
    \/ InsertFromDataframe
    \/ InsertSingleSignal
    \/ GetExistingSignals
    \/ Close
    \/ Tick
    \/ Return

SpecInserter == Init /\ [][NextInserter]_vars

\* The inserter fed from files
NextCsv ==
    \/ InsertFromCsv
    \/ Close
    \/ Tick
    \/ Return

SpecCsv == Init /\ [][NextCsv]_vars

\* The record and the converter
NextConverter ==
    \/ NewSignalRaw
    \/ ValidateDataframe
    \/ DataframeToSignalsRaw
    \/ SignalsRawToDataframe
    \/ Tick
    \/ Return

SpecConverter == Init /\ [][NextConverter]_vars

(***************************************************************************)
(* The properties.                                                         *)
(***************************************************************************)
\* The call returned True; it returned False
ReturnedTrue(call) == call.exc = "none" /\ call.ret
ReturnedFalse(call) == call.exc = "none" /\ ~call.ret

\* The calls of store_signals_raw among calls, in order
StoreCalls(calls) == SelectSeq(calls, LAMBDA c : c.op = "store_signals_raw")

\* The column metadata holds the map m: NULL for an absent or empty map, and
\* otherwise JSON text that decodes to m
CarriesMetadata(stored, m) ==
    IF Truthy(m)
    THEN IsStr(stored) /\ JsonWellFormed(stored) /\ JsonLoads(stored) = m
    ELSE stored = PyNone

\* The row r carries the value, metadata and created_at of the signal
CarriesSignal(r, signal) ==
    /\ Key(r) = Key(signal)
    /\ r.value = signal.value
    /\ CarriesMetadata(r.metadata, signal.metadata)
    /\ r.created_at = signal.created_at

\* C1: after any sequence of store_signals_raw calls the table holds at most
\* one row per (asof_date, ticker, signal_name); after a call that stored its
\* whole batch, the row of every key of the batch carries the value, metadata
\* and created_at of the last signal of the batch with that key; and every row
\* is either as it was before the call or carries a signal of the batch.
C1_LastWriteWins ==
    /\ \A r1, r2 \in signal_raw : Key(r1) = Key(r2) => r1 = r2
    /\ (last.op = "store_signals_raw" /\ last.exc = "none"
            /\ last.ret = Len(last.args))
        => \A i \in 1..Len(last.args) :
              (\A j \in (i + 1)..Len(last.args) :
                    Key(last.args[j]) # Key(last.args[i]))
              => \E r \in signal_raw : CarriesSignal(r, last.args[i])
    /\ (last.op = "store_signals_raw" /\ last.exc = "none")
        => \A r \in signal_raw :
              \/ r \in last.calls[1].before
              \/ \E i \in 1..Len(last.args) : CarriesSignal(r, last.args[i])

\* A second call upserts value 90 on a key stored with value 75: one row, 90
C1_Witness ==
    /\ last.op = "store_signals_raw"
    /\ last.exc = "none"
    /\ last.ret = 1
    /\ \E old \in last.calls[1].before, new \in signal_raw :
          /\ Key(old) = Key(new)
          /\ old.value = PyNum(75)
          /\ new.value = PyNum(90)
          /\ {r \in signal_raw : Key(r) = Key(new)} = {new}

(***************************************************************************)
(* insert_from_dataframe.                                                  *)
(***************************************************************************)
IsInsert == last.op = "insert_from_dataframe"

\* What the conversion of the frame of the last call gives
LastConversion == dataframe_to_signals_raw(last.args.df, clock)
LastSignals == LastConversion.signals

\* The last call was an insert_from_dataframe that came to its batch loop:
\* validation passed or was not asked for, the connection and the schema
\* bootstrap succeeded and the frame converted
ReachedLoop ==
    /\ IsInsert
    /\ last.args.validate => validate_dataframe(last.args.df) = <<>>
    /\ last.calls # <<>>
    /\ last.calls[1].op = "ensure_connection" /\ ReturnedTrue(last.calls[1])
    /\ auto_create_table =>
          /\ Len(last.calls) >= 2
          /\ last.calls[2].op = "create_signal_raw_table" /\ ReturnedTrue(last.calls[2])
    /\ LastConversion.exc = "none"

LastStoreCalls == StoreCalls(last.calls)

CeilDiv(n, b) == (n + b - 1) \div b

\* The batches of calls[k..], concatenated
RECURSIVE BatchesFrom(_, _)
BatchesFrom(calls, k) ==
    IF k > Len(calls) THEN <<>> ELSE calls[k].batch \o BatchesFrom(calls, k + 1)

ChunkStatementFails(call) ==
    /\ call.exc = "none"
    /\ call.batch # <<>>
    /\ \/ ~table_exists
       \/ \E i \in 1..Len(call.batch) : Len(call.batch[i].ticker.v) > TickerMaxLen

\* The counts of calls[k..] that returned one, added up
RECURSIVE CountsFrom(_, _)
CountsFrom(calls, k) ==
    IF k > Len(calls) THEN 0
    ELSE (IF calls[k].exc = "none" /\ ~ChunkStatementFails(calls[k])
          THEN calls[k].ret ELSE 0) + CountsFrom(calls, k + 1)

\* C3 (as claimed): when the statement of a batch fails, an error tagged with
\* the number of the batch is appended, the later batches are still attempted,
\* records_inserted adds up the counts of the batches that succeeded, and
\* success is false.
C3_FailedChunkReported ==
    (ReachedLoop /\ last.args.batch_size >= 1)
    => /\ Len(LastStoreCalls) = CeilDiv(Len(LastSignals), last.args.batch_size)
       /\ last.ret.records_inserted = CountsFrom(LastStoreCalls, 1)
       /\ \A k \in 1..Len(LastStoreCalls) :
             ChunkStatementFails(LastStoreCalls[k])
             => /\ ~last.ret.success
                /\ \E e \in 1..Len(last.ret.errors) :
                      last.ret.errors[e] = Finding("Failed to insert batch", <<k>>)

\* C4 (as claimed): every batch passed to store_signals_raw is applied as a
\* whole or not at all: after the call every record of the batch has its row,
\* or the table is as it was before the call.
C4_BatchAtomic ==
    \A k \in 1..Len(StoreCalls(last.calls)) :
        LET call == StoreCalls(last.calls)[k]
        IN  \/ call.after = call.before
            \/ \A i \in 1..Len(call.batch) :
                  \E r \in call.after : Key(r) = Key(call.batch[i])

\* C5 (as claimed): an insert_from_dataframe with batch_size < 1 is rejected:
\* it does not return success = true.
C5_BatchSizeValidated ==
    (IsInsert /\ last.args.batch_size < 1) => ~last.ret.success

C8_SuccessIffNoErrors ==
    ReachedLoop => (last.ret.success <=> last.ret.errors = <<>>)

\* Fewer records inserted than processed, no error recorded: success
C8_Witness ==
    /\ ReachedLoop
    /\ last.ret.records_inserted < last.ret.records_processed
    /\ last.ret.errors = <<>>
    /\ last.ret.success

(***************************************************************************)
(* insert_single_signal.                                                   *)
(***************************************************************************)
IsSingle == last.op = "insert_single_signal"

\* What building the record of the last insert_single_signal gives
LastSingleRecord ==
    SignalRaw(last.args.asof_date, last.args.ticker, last.args.signal_name,
              last.args.value, last.args.metadata, PyNone, clock)

\* C9: an insert_single_signal whose record construction fails (an empty
\* ticker, for one) returns False, calls nothing on the gateway and leaves the
\* connection and the database as they were.
C9_RejectedSingleSkipsGateway ==
    [][(IsSingle' /\ LastSingleRecord'.exc # "none")
       => /\ last'.ret = FALSE
          /\ last'.calls = <<>>
          /\ UNCHANGED <<connection, autocommit, table_exists, indexes,
                         signal_raw>>]_vars

\* An empty ticker
C9_Witness ==
    /\ IsSingle
    /\ last.args.ticker = PyStr("")
    /\ LastSingleRecord.exc = "ValueError"
    /\ last.ret = FALSE
    /\ last.calls = <<>>

\* Every step of the last insert_single_signal succeeded: the record, the
\* connection, the table when auto_create_table is set, and a store that
\* returned a positive count
SingleAllSucceeded ==
    LET n == Len(last.calls)
    IN  /\ LastSingleRecord.exc = "none"
        /\ n >= 1
        /\ last.calls[1].op = "ensure_connection" /\ ReturnedTrue(last.calls[1])
        /\ auto_create_table =>
              /\ n >= 2
              /\ last.calls[2].op = "create_signal_raw_table" /\ ReturnedTrue(last.calls[2])
        /\ last.calls[n].op = "store_signals_raw"
        /\ last.calls[n].exc = "none"
        /\ last.calls[n].ret > 0

\* C10: insert_single_signal propagates no exception, and returns True exactly
\* when every step succeeded.
C10_SingleTrueIffStored ==
    IsSingle => /\ last.exc = "none"
                /\ last.ret <=> SingleAllSucceeded

\* The store raises on the way: False, and nothing propagated
C10_Witness ==
    /\ IsSingle
    /\ last.calls # <<>>
    /\ last.calls[Len(last.calls)].op = "store_signals_raw"
    /\ last.calls[Len(last.calls)].exc = "TypeError"
    /\ last.exc = "none"
    /\ last.ret = FALSE

(***************************************************************************)
(* get_existing_signals.                                                   *)
(***************************************************************************)
IsFetch == last.op = "get_existing_signals"

\* The last get_existing_signals failed: no connection, or the gateway's
\* query failed
FetchFailed ==
    \/ ~ReturnedTrue(last.calls[1])
    \/ /\ Len(last.calls) = 2
       /\ ~table_exists

\* C11 (as claimed): get_existing_signals returns a table on every path and
\* propagates no exception; when the connection cannot be made or the query
\* fails in the gateway, the table it returns is empty.
C11_FetchReturnsTable ==
    IsFetch => /\ last.exc = "none"
               /\ last.ret.type = "DataFrame"
               /\ FetchFailed => last.ret.v.rows = <<>>

(***************************************************************************)
(* get_signals_raw.                                                        *)
(***************************************************************************)
\* The last call was a get_signals_raw whose query the server answered
QueryAnswered ==
    /\ last.op = "get_signals_raw"
    /\ connection = "open"
    /\ table_exists

\* A filter field that is given and not empty
FieldGiven(x) == x.type # "NoneType" /\ (x.type = "list" => x.v # <<>>)

\* The row satisfies every predicate of the filter whose field is given
MatchesFilter(r, f) ==
    /\ FieldGiven(f.tickers)
          => \E i \in 1..Len(f.tickers.v) : f.tickers.v[i] = r.ticker
    /\ FieldGiven(f.signal_names)
          => \E i \in 1..Len(f.signal_names.v) : f.signal_names.v[i] = r.signal_name
    /\ FieldGiven(f.start_date) => r.asof_date.v >= f.start_date.v
    /\ FieldGiven(f.end_date) => r.asof_date.v <= f.end_date.v

\* Date descending, then ticker ascending, then signal_name ascending
InResultOrder(a, b) ==
    LET ka == <<0 - a.asof_date.v, StrRank(a.ticker.v), StrRank(a.signal_name.v)>>
        kb == <<0 - b.asof_date.v, StrRank(b.ticker.v), StrRank(b.signal_name.v)>>
    IN  \E k \in 1..3 : ka[k] < kb[k] /\ \A j \in 1..(k - 1) : ka[j] = kb[j]

\* C12: a get_signals_raw whose query is answered returns exactly the stored
\* rows that satisfy every predicate whose filter field is given and not
\* empty, each once, ordered by date descending, then ticker, then
\* signal_name ascending.
C12_QueryFiltersAndOrders ==
    QueryAnswered
    => /\ last.exc = "none"
       /\ last.ret.type = "DataFrame"
       /\ LET rows == last.ret.v.rows
          IN  /\ { rows[i] : i \in 1..Len(rows) }
                    = { r \in signal_raw : MatchesFilter(r, last.args) }
              /\ \A i, j \in 1..Len(rows) : i < j => InResultOrder(rows[i], rows[j])

\* tickers = [AAPL, MSFT] and no other field, on a table of four rows of two
\* dates, two tickers and two signal names
C12_Witness ==
    /\ QueryAnswered
    /\ last.args = [tickers |-> PyList(<<PyStr("AAPL"), PyStr("MSFT")>>),
                    signal_names |-> PyNone, start_date |-> PyNone,
                    end_date |-> PyNone]
    /\ Len(last.ret.v.rows) = 4
    /\ Key(last.ret.v.rows[1]) = <<PyDate(2), PyStr("MSFT"), SentimentYt>>
    /\ Key(last.ret.v.rows[2]) = <<PyDate(1), PyStr("AAPL"), PyStr("MOMENTUM_1M")>>
    /\ Key(last.ret.v.rows[3]) = <<PyDate(1), PyStr("AAPL"), SentimentYt>>
    /\ Key(last.ret.v.rows[4]) = <<PyDate(1), PyStr("MSFT"), SentimentYt>>

(***************************************************************************)
(* create_signal_raw_table.                                                *)
(***************************************************************************)
IsCreate == last.op = "create_signal_raw_table"

TouchesStore ==
    \/ last.op \in {"get_signals_raw", "create_signal_raw_table", "reset_sequence"}
    \/ last.op = "store_signals_raw" /\ last.args # <<>> /\ last.exc # "TypeError"

\* The last call returned what the operation returns on failure
ReturnedFailure ==
    CASE last.op = "get_signals_raw" -> last.ret.type = "NoneType"
      [] last.op = "store_signals_raw" -> last.ret = 0
      [] OTHER -> last.ret = FALSE

IsValidate == last.op = "validate_dataframe"

\* The required columns the frame does not have
MissingSet(df) == {"asof_date", "ticker", "signal_name", "value"} \ df.columns

\* The entries of a sequence
Range(seq) == { seq[i] : i \in 1..Len(seq) }

\* A frame with rows, all required columns, dates, string tickers and signal
\* names, numeric values and no key twice
WellFormedFrame(df) ==
    /\ df.rows # <<>>
    /\ MissingSet(df) = {}
    /\ \A i \in 1..Len(df.rows) :
          /\ df.rows[i]["asof_date"].type \in {"date", "datetime"}
          /\ df.rows[i]["ticker"].type = "str"
          /\ df.rows[i]["signal_name"].type = "str"
          /\ df.rows[i]["value"].type = "float"
    /\ \A i, j \in 1..Len(df.rows) :
          i # j => <<df.rows[i]["asof_date"], df.rows[i]["ticker"],
                     df.rows[i]["signal_name"]>>
                   # <<df.rows[j]["asof_date"], df.rows[j]["ticker"],
                       df.rows[j]["signal_name"]>>

\* C15: validate_dataframe on a frame without rows has the finding "DataFrame
\* is empty"; on a frame that lacks required columns it has a finding that
\* names exactly the missing ones; on a frame with rows, all required
\* columns, genuine dates, string tickers and signal names, numeric values
\* and pairwise distinct keys it has no finding.
C15_ValidateFindings ==
    IsValidate
    => LET df == last.args.df
       IN  /\ df.rows = <<>>
                 => \E e \in 1..Len(last.ret) : last.ret[e].error = "DataFrame is empty"
           /\ MissingSet(df) # {}
                 => \E e \in 1..Len(last.ret) :
                        /\ last.ret[e].error = "Missing required columns"
                        /\ Range(last.ret[e].info) = MissingSet(df)
           /\ WellFormedFrame(df) => last.ret = <<>>

\* A frame with rows that lacks value and ticker: the finding names both
C15_Witness ==
    /\ IsValidate
    /\ last.args.df.rows # <<>>
    /\ MissingSet(last.args.df) = {"ticker", "value"}
    /\ \E e \in 1..Len(last.ret) :
          last.ret[e] = Finding("Missing required columns", <<"ticker", "value">>)

\* The keys of the rows of a frame that has the three key columns
FrameKeys(df) ==
    { <<df.rows[i]["asof_date"], df.rows[i]["ticker"], df.rows[i]["signal_name"]>> :
        i \in 1..Len(df.rows) }

\* The counts reported by the duplicate findings
DuplicateCounts(findings) ==
    { findings[e].info[1] :
        e \in { k \in 1..Len(findings) :
                  findings[k].error = "Found duplicate signal records" } }

\* C16: on a frame with the three key columns, validate_dataframe reports
\* duplicates exactly when two rows share a key, and the count it reports is
\* the number of rows minus the number of distinct keys.
C16_DuplicateCount ==
    (IsValidate /\ {"asof_date", "ticker", "signal_name"} \subseteq last.args.df.columns)
    => LET df == last.args.df
           extra == Len(df.rows) - Cardinality(FrameKeys(df))
       IN  DuplicateCounts(last.ret) = IF extra > 0 THEN {extra} ELSE {}

\* Two rows of one key: a count of 1
C16_Witness ==
    /\ IsValidate
    /\ last.args.df = DataFrame(<<GoodRow, GoodRow>>)
    /\ last.ret = <<Finding("Found duplicate signal records", <<1>>)>>

(***************************************************************************)
(* dataframe_to_signals_raw.                                               *)
(***************************************************************************)
IsConvert == last.op = "dataframe_to_signals_raw"

\* C17: dataframe_to_signals_raw on a frame that lacks required columns
\* raises ValueError naming exactly the missing columns and gives no record,
\* whatever the rows hold.
C17_MissingColumnsFail ==
    (IsConvert /\ MissingSet(last.args.df) # {})
    => /\ last.exc = "ValueError"
       /\ last.error.error = "DataFrame missing required columns"
       /\ Range(last.error.info) = MissingSet(last.args.df)
       /\ last.ret = <<>>

\* A frame without asof_date whose row has an empty ticker
C17_Witness ==
    /\ IsConvert
    /\ last.args.df = DropColumns(DataFrame(<<EmptyTickerRow>>), {"asof_date"})
    /\ last.exc = "ValueError"
    /\ last.error = Finding("DataFrame missing required columns", <<"asof_date">>)
    /\ last.ret = <<>>

\* The row has what the SignalRaw constructor asks of the required fields
RequiredFieldsValid(row) ==
    /\ row["ticker"].type = "str" /\ row["ticker"].v # ""
    /\ row["signal_name"].type = "str" /\ row["signal_name"].v # ""
    /\ row["value"].type = "float"
    /\ row["asof_date"].type \in {"date", "datetime"}

\* The metadata the record of a row is to have: null for no column, a null
\* cell or text that is not JSON, the decoded map for JSON text, the map
\* itself for a map
ExpectedMetadata(df, row) ==
    IF "metadata" \notin df.columns THEN PyNone
    ELSE CASE row["metadata"].type = "dict" -> row["metadata"]
           [] row["metadata"].type = "str" /\ JsonWellFormed(row["metadata"])
                -> JsonLoads(row["metadata"])
           [] OTHER -> PyNone

\* C18: when every row has valid required fields, dataframe_to_signals_raw
\* succeeds whatever the metadata cells hold, with one record per row in
\* order, the required fields as in the row, and as metadata null for text
\* that is not JSON, the decoded map for JSON text and the map itself for a
\* map.
C18_LenientMetadata ==
    (IsConvert /\ MissingSet(last.args.df) = {}
        /\ \A i \in 1..Len(last.args.df.rows) : RequiredFieldsValid(last.args.df.rows[i]))
    => LET df == last.args.df
       IN  /\ last.exc = "none"
           /\ Len(last.ret) = Len(df.rows)
           /\ \A i \in 1..Len(df.rows) :
                 /\ last.ret[i].asof_date = df.rows[i]["asof_date"]
                 /\ last.ret[i].ticker = df.rows[i]["ticker"]
                 /\ last.ret[i].signal_name = df.rows[i]["signal_name"]
                 /\ last.ret[i].value = df.rows[i]["value"]
                 /\ last.ret[i].metadata.type = ExpectedMetadata(df, df.rows[i]).type
                 /\ last.ret[i].metadata = ExpectedMetadata(df, df.rows[i])

\* A row whose metadata is not JSON before a row whose metadata is JSON text
C18_Witness ==
    /\ IsConvert
    /\ Len(last.args.df.rows) = 2
    /\ last.args.df.rows[1] = MalformedRow
    /\ last.args.df.rows[2]["metadata"] = PyStr("{\"source\":\"youtube\"}")
    /\ last.exc = "none"
    /\ last.ret[1].metadata = PyNone
    /\ last.ret[1].ticker = PyStr("MSFT")
    /\ last.ret[2].metadata = PyDict(YoutubeMap)

(***************************************************************************)
(* dataframe_to_signals_raw followed by signals_raw_to_dataframe.          *)
(***************************************************************************)
IsRoundTrip == last.op = "signals_raw_to_dataframe"

\* The metadata cell is absent, a map that has a JSON form, or the JSON text
\* of a map
MetadataRepresentable(df, row) ==
    \/ "metadata" \notin df.columns
    \/ row["metadata"].type = "NoneType"
    \/ row["metadata"].type = "dict" /\ JsonSerializable(row["metadata"])
    \/ row["metadata"].type = "str" /\ JsonWellFormed(row["metadata"])

\* A table validate_dataframe finds nothing in, with representable metadata
ValidTable(df) ==
    /\ validate_dataframe(df) = <<>>
    /\ \A i \in 1..Len(df.rows) : MetadataRepresentable(df, df.rows[i])

\* The map a metadata cell of the resulting table stands for
Decoded(cell) == IF cell.type = "str" THEN JsonLoads(cell) ELSE cell

\* C19: for a valid table, dataframe_to_signals_raw followed by
\* signals_raw_to_dataframe gives a table of the same rows in the same order
\* with equal asof_date, ticker, signal_name and value, whose metadata decodes
\* to the map of the input row, an empty map and absent metadata included.
C19_RoundTrip ==
    (IsRoundTrip /\ ValidTable(last.args.df))
    => LET df == last.args.df
       IN  /\ last.exc = "none"
           /\ Len(last.ret.rows) = Len(df.rows)
           /\ \A i \in 1..Len(df.rows) :
                 /\ last.ret.rows[i]["asof_date"] = df.rows[i]["asof_date"]
                 /\ last.ret.rows[i]["ticker"] = df.rows[i]["ticker"]
                 /\ last.ret.rows[i]["signal_name"] = df.rows[i]["signal_name"]
                 /\ last.ret.rows[i]["value"] = df.rows[i]["value"]
                 /\ Decoded(last.ret.rows[i]["metadata"]).type
                       = ExpectedMetadata(df, df.rows[i]).type
                 /\ Decoded(last.ret.rows[i]["metadata"])
                       = ExpectedMetadata(df, df.rows[i])

(***************************************************************************)
(* SignalRaw.                                                              *)
(***************************************************************************)
IsNew == last.op = "SignalRaw"

\* What the constructor is to reject
Rejected(a) ==
    \/ a.ticker.type # "str" \/ a.ticker.v = ""
    \/ a.signal_name.type # "str" \/ a.signal_name.v = ""
    \/ a.value.type # "float"
    \/ a.asof_date.type \notin {"date", "datetime"}

\* C20: SignalRaw(...) raises ValueError and gives no object when ticker or
\* signal_name is empty or not a string, value is not a number or asof_date
\* is not a date; otherwise it gives an object with the given fields, whose
\* created_at is the current time when none was given and the given one
\* otherwise.
C20_ConstructionFailsFast ==
    IsNew
    => IF Rejected(last.args)
       THEN /\ last.exc = "ValueError"
            /\ last.error # ""
            /\ "ticker" \notin DOMAIN last.ret
       ELSE /\ last.exc = "none"
            /\ last.ret.asof_date = last.args.asof_date
            /\ last.ret.ticker = last.args.ticker
            /\ last.ret.signal_name = last.args.signal_name
            /\ last.ret.value = last.args.value
            /\ last.ret.metadata.type = last.args.metadata.type
            /\ last.ret.metadata = last.args.metadata
            /\ last.ret.created_at.type = "datetime"
            /\ last.ret.created_at = IF last.args.created_at.type = "NoneType"
                                     THEN PyDatetime(clock)
                                     ELSE last.args.created_at

\* An empty signal_name rejected although every other field is valid
C20_Witness ==
    /\ IsNew
    /\ last.args.ticker = PyStr("AAPL")
    /\ last.args.signal_name = PyStr("")
    /\ last.args.value = PyNum(75)
    /\ last.args.asof_date = PyDate(1)
    /\ last.exc = "ValueError"
    /\ last.error = "signal_name must be a non-empty string"

(***************************************************************************)
(* connect.                                                                *)
(***************************************************************************)
IsConnect == last.op = "connect"

\* C22: connect raises nothing whatever failure the driver reports; it returns
\* False on a failure, and a gateway that was not connected is then still not
\* connected; it returns True only with an open connection, which is in
\* autocommit mode.
C22_ConnectNeverThrows ==
    IsConnect
    => /\ last.exc = "none"
       /\ IF last.ret
          THEN connection = "open" /\ autocommit
          ELSE ~last.calls[1].connected => connection # "open"

(***************************************************************************)
(* insert_from_csv.                                                        *)
(***************************************************************************)
IsCsv == last.op = "insert_from_csv"

\* The file cannot be parsed: its bytes are not text, or it has no asof_date
\* column to parse as dates
Unparsable(file) ==
    \/ ~file.decodable
    \/ "asof_date" \notin Range(file.header)

\* Some cell of the date column is not a date
DateUnparsable(file) ==
    /\ "asof_date" \in Range(file.header)
    /\ \E i \in 1..Len(file.lines) :
          LET text == file.lines[i][ColumnIndex(file.header, "asof_date")]
          IN  text # "" /\ ~IsDateText(text)

\* The cases the claim lists for an immediate error
ClaimedImmediate(file) ==
    \/ ~file.exists
    \/ ZeroLength(file)
    \/ Unparsable(file)
    \/ DateUnparsable(file)

\* The file has a header and no line of data
NoDataRows(file) == file.header # <<>> /\ file.lines = <<>>

\* The table a file parses to, the date column converted
ParsedTable(file) == to_date_column(read_csv(file).df).df

\* The step is an insert_from_csv that, when immediate holds, returns an error
\* result without calling the gateway, and otherwise returns what
\* insert_from_dataframe returns for the parsed table, having made the same
\* calls with the same effect
CsvOutcome(immediate) ==
    IF immediate
    THEN /\ last'.exc = "none"
         /\ ~last'.ret.success
         /\ last'.ret.errors # <<>>
         /\ last'.ret.records_processed = 0
         /\ last'.calls = <<>>
         /\ UNCHANGED <<connection, autocommit, table_exists, indexes, signal_raw>>
    ELSE LET a == last'.args
             out == insert_from_dataframe(Gateway, auto_create_table,
                                          ParsedTable(a.file), a.validate,
                                          a.batch_size, a.env, clock)
         IN  /\ last'.exc = "none"
             /\ last'.ret = out.ret
             /\ last'.calls = out.calls
             /\ connection' = out.g.connection
             /\ table_exists' = out.g.table_exists
             /\ indexes' = out.g.indexes
             /\ signal_raw' = out.g.signal_raw

Ops(calls) == [k \in 1..Len(calls) |-> calls[k].op]

\* The last insert_from_dataframe got past ensure_connection
Connected ==
    /\ IsInsert
    /\ last.calls # <<>>
    /\ last.calls[1].op = "ensure_connection" /\ ReturnedTrue(last.calls[1])

\* C23: with auto_create_table, an insert_from_dataframe that got its
\* connection calls create_signal_raw_table next, before the conversion and
\* any store_signals_raw; when that returns True reset_sequence follows and
\* only store_signals_raw calls come after; when it fails the call ends there
\* with success = false and the one error of the schema.  Without
\* auto_create_table neither is called, and without a connection neither.
C23_SchemaBootstrapOrder ==
    IsInsert
    => IF Connected /\ auto_create_table
       THEN /\ Len(last.calls) >= 2
            /\ last.calls[2].op = "create_signal_raw_table"
            /\ IF ReturnedTrue(last.calls[2])
               THEN /\ Len(last.calls) >= 3
                    /\ last.calls[3].op = "reset_sequence"
                    /\ \A k \in 4..Len(last.calls) :
                          last.calls[k].op = "store_signals_raw"
               ELSE /\ Len(last.calls) = 2
                    /\ last.exc = "none"
                    /\ last.ret = Result(FALSE, 0, 0,
                           <<Finding("Failed to create signal_raw table", <<>>)>>)
       ELSE \A k \in 1..Len(last.calls) :
               last.calls[k].op \notin {"create_signal_raw_table", "reset_sequence"}

\* The table cannot be created for a frame that would convert
C23_Witness ==
    /\ IsInsert
    /\ auto_create_table
    /\ Ops(last.calls) = <<"ensure_connection", "create_signal_raw_table">>
    /\ ReturnedFalse(last.calls[2])
    /\ LastConversion.exc = "none" /\ Len(LastSignals) > 0
    /\ ~last.ret.success
    /\ signal_raw = {}

\* The last insert_from_dataframe came to the conversion
ReachedConversion ==
    /\ Connected
    /\ last.args.validate => validate_dataframe(last.args.df) = <<>>
    /\ auto_create_table =>
          /\ Len(last.calls) >= 2
          /\ last.calls[2].op = "create_signal_raw_table" /\ ReturnedTrue(last.calls[2])

\* C24: an insert_from_dataframe whose conversion fails returns success =
\* false, the message of the conversion error as its one error and zero
\* counts, and makes no store_signals_raw call.
C24_ConversionFailureAborts ==
    (ReachedConversion /\ LastConversion.exc # "none")
    => /\ last.exc = "none"
       /\ last.ret = Result(FALSE, 0, 0,
              <<Finding("Failed to convert DataFrame to signals",
                        <<LastConversion.msg>>)>>)
       /\ LastStoreCalls = <<>>

\* A frame not validated whose second row has an empty signal_name
C24_Witness ==
    /\ ReachedConversion
    /\ ~last.args.validate
    /\ Len(last.args.df.rows) = 2
    /\ last.args.df.rows[2]["signal_name"] = PyStr("")
    /\ last.ret.errors = <<Finding("Failed to convert DataFrame to signals",
                                   <<"signal_name must be a non-empty string">>)>>
    /\ last.ret.records_processed = 0
    /\ LastStoreCalls = <<>>

\* An exception was raised and caught during the last insert_from_dataframe:
\* by a gateway call, by the conversion, or by range() for a batch_size of 0
ExceptionCaught ==
    \/ \E k \in 1..Len(last.calls) : last.calls[k].exc # "none"
    \/ ReachedConversion /\ LastConversion.exc # "none"
    \/ ReachedLoop /\ last.args.batch_size = 0

HasEmptyIdentifier(df) ==
    \E i \in 1..Len(df.rows) :
        df.rows[i]["ticker"] = PyStr("") \/ df.rows[i]["signal_name"] = PyStr("")

\* C26: a frame with rows and all required columns, otherwise in order, in
\* which a ticker or signal_name is the empty string has no finding; an
\* insert_from_dataframe with validate = true on it goes on to
\* ensure_connection and, the connection made, to the schema bootstrap, and
\* then ends at the conversion with that one error and no store_signals_raw.
C26_ValidationWeakerThanConversion ==
    (IsInsert /\ last.args.validate /\ WellFormedFrame(last.args.df)
        /\ HasEmptyIdentifier(last.args.df))
    => /\ validate_dataframe(last.args.df) = <<>>
       /\ last.calls # <<>>
       /\ last.calls[1].op = "ensure_connection"
       /\ ReachedConversion
             => /\ LastConversion.exc = "ValueError"
                /\ last.ret = Result(FALSE, 0, 0,
                       <<Finding("Failed to convert DataFrame to signals",
                                 <<LastConversion.msg>>)>>)
                /\ Ops(last.calls) = IF auto_create_table
                                     THEN <<"ensure_connection",
                                            "create_signal_raw_table", "reset_sequence">>
                                     ELSE <<"ensure_connection">>

\* The table is created by the call that then rejects the empty ticker
C26_Witness ==
    /\ IsInsert
    /\ last.args.validate
    /\ last.args.df = DataFrame(<<EmptyTickerRow>>)
    /\ Ops(last.calls) = <<"ensure_connection", "create_signal_raw_table",
                           "reset_sequence">>
    /\ last.calls[1].connects = 1
    /\ last.calls[2].statements = 6
    /\ table_exists /\ indexes = IndexNames /\ signal_raw = {}
    /\ last.ret.errors = <<Finding("Failed to convert DataFrame to signals",
                                   <<"ticker must be a non-empty string">>)>>

BatchKeys(signals) == { Key(signals[i]) : i \in 1..Len(signals) }
StoredKeys(rows) == { Key(r) : r \in rows }

\* store_signals_raw stored its whole batch
StoredBatch(call) ==
    /\ call.op = "store_signals_raw"
    /\ call.exc = "none"
    /\ call.batch # <<>>
    /\ call.ret = Len(call.batch)

\* C28: a store_signals_raw that stored its batch leaves every row whose key
\* is not in the batch as it was, removes no key, and adds as many rows as
\* the batch has distinct keys that were not stored; with an empty batch it
\* returns 0, sends no statement, makes no connection and changes nothing.
C28_UpsertTouchesBatchKeysOnly ==
    [][(last'.op = "store_signals_raw")
       => /\ StoredBatch(last'.calls[1])
             => /\ \A r \in signal_raw :
                      Key(r) \notin BatchKeys(last'.args) => r \in signal_raw'
                /\ StoredKeys(signal_raw) \subseteq StoredKeys(signal_raw')
                /\ Cardinality(signal_raw')
                      = Cardinality(signal_raw)
                        + Cardinality(BatchKeys(last'.args) \ StoredKeys(signal_raw))
          /\ last'.args = <<>>
             => /\ last'.exc = "none"
                /\ last'.ret = 0
                /\ last'.calls[1].statements = 0
                /\ last'.calls[1].connects = 0
                /\ Gateway' = Gateway]_vars

\* A batch of two records, one on a stored key and one on a new key, stored
\* over a table that also holds a row of a third key
C28_Witness ==
    /\ last.op = "store_signals_raw"
    /\ StoredBatch(last.calls[1])
    /\ Len(last.args) = 2
    /\ Cardinality(BatchKeys(last.args)) = 2
    /\ Cardinality(BatchKeys(last.args) \cap StoredKeys(last.calls[1].before)) = 1
    /\ \E r \in last.calls[1].before :
          /\ Key(r) \notin BatchKeys(last.args)
          /\ r.asof_date = last.args[1].asof_date
          /\ r.ticker = last.args[1].ticker
          /\ r \in signal_raw
    /\ Cardinality(signal_raw) = 3

\* The last insert_from_dataframe or insert_single_signal called
\* reset_sequence, which returned False
ResetFailed ==
    /\ IsInsert \/ IsSingle
    /\ Len(last.calls) >= 3
    /\ last.calls[3].op = "reset_sequence"
    /\ ReturnedFalse(last.calls[3])

\* The calls made after reset_sequence
AfterReset(calls) == SubSeq(calls, 4, Len(calls))

\* The same call from the same state with no failure in the environment
SameInsertUnfailing ==
    insert_from_dataframe(Gateway, auto_create_table, last'.args.df,
                          last'.args.validate, last'.args.batch_size, EnvOk, clock)
SameSingleUnfailing ==
    insert_single_signal(Gateway, auto_create_table, last'.args.asof_date,
                         last'.args.ticker, last'.args.signal_name,
                         last'.args.value, last'.args.metadata, EnvOk, clock)

\* C29: an insert_from_dataframe or insert_single_signal whose reset_sequence
\* returns False goes on as the same call does when reset_sequence returns
\* True: it returns the same result (no error entry for the sequence, success
\* when the store succeeds), makes the same calls afterwards and leaves the
\* same rows.
C29_ResetFailureIgnored ==
    [][ResetFailed'
       => LET same == IF IsInsert' THEN SameInsertUnfailing ELSE SameSingleUnfailing
          IN  /\ last'.exc = "none"
              /\ last'.ret = same.ret
              /\ AfterReset(last'.calls) = AfterReset(same.calls)
              /\ ReturnedTrue(same.calls[3])
              /\ signal_raw' = same.g.signal_raw
              /\ IsInsert' =>
                    /\ \A k \in 1..Len(last'.ret.errors) :
                          last'.ret.errors[k].error
                              \in {"Failed to convert DataFrame to signals",
                                   "Failed to insert batch",
                                   "Unexpected error during insertion"}
                    /\ ReachedLoop' /\ last'.args.batch_size >= 1
                       => Len(StoreCalls(last'.calls))
                             = CeilDiv(Len(LastSignals'), last'.args.batch_size)
              /\ IsSingle' => last'.calls[Len(last'.calls)].op = "store_signals_raw"]_vars

\* reset_sequence returned False and the insert_from_dataframe stored its
\* record and returned success
C29_Witness ==
    /\ IsInsert
    /\ ResetFailed
    /\ last.ret.success
    /\ last.ret.records_inserted = 1
    /\ last.ret.errors = <<>>
    /\ Len(last.calls) = 4
    /\ StoredBatch(last.calls[4])

\* The last call was one of the inserter's operations on the store, and it
\* came to the gateway
UsedGateway == (IsInsert \/ IsSingle \/ IsFetch) /\ last.calls # <<>>

\* The connection was open when the k-th gateway call of the last operation
\* returned
OpenAfter(k) ==
    IF k < Len(last.calls) THEN last.calls[k + 1].connected
    ELSE connection = "open"

\* What the operation gives its caller when the connection cannot be made
ConnectionFailureReported ==
    /\ last.exc = "none"
    /\ IsInsert =>
          /\ ~last.ret.success
          /\ Len(last.ret.errors) = 1
          /\ last.ret.errors[1].error \in {"Failed to connect to database",
                                           "Unexpected error during insertion"}
    /\ IsSingle => last.ret = FALSE
    /\ IsFetch => last.ret = PyDataFrame([columns |-> {}, rows |-> <<>>])

\* C30: close raises nothing in any state of the connection, sends nothing
\* and leaves it not open.  An operation that comes to the gateway starts
\* with ensure_connection, which makes one connection attempt when the
\* connection is not open and none when it is; no later call of the operation
\* connects.  When the attempt fails the operation ends there, reporting the
\* failure, with no statement sent; otherwise every call of the operation
\* finds the connection open and leaves it open.
C30_ConnectionLifecycle ==
    /\ last.op = "close"
       => /\ last.exc = "none"
          /\ connection # "open"
          /\ last.calls[1].connects = 0
          /\ last.calls[1].statements = 0
          /\ last.calls[1].after = last.calls[1].before
    /\ UsedGateway
       => /\ last.calls[1].op = "ensure_connection"
          /\ last.calls[1].connects = (IF last.calls[1].connected THEN 0 ELSE 1)
          /\ last.calls[1].statements = 0
          /\ \A k \in 2..Len(last.calls) : last.calls[k].connects = 0
          /\ IF ReturnedTrue(last.calls[1])
             THEN \A k \in 1..Len(last.calls) :
                     /\ OpenAfter(k)
                     /\ k > 1 => last.calls[k].connected
             ELSE /\ Len(last.calls) = 1
                  /\ ~last.calls[1].connected
                  /\ connection # "open"
                  /\ ConnectionFailureReported

\* An insert_from_dataframe on a closed connection (rows are stored, so a
\* connection was open once) that connects again and stores its record
C30_Witness ==
    /\ IsInsert
    /\ UsedGateway
    /\ last.calls[1].before # {}
    /\ ~last.calls[1].connected
    /\ last.calls[1].connects = 1
    /\ ReturnedTrue(last.calls[1])
    /\ last.ret.success
    /\ last.ret.records_inserted >= 1
    /\ \E k \in 2..Len(last.calls) :
          last.calls[k].statements > 0 /\ last.calls[k].connected
    /\ connection = "open"

====
